---- MODULE Spec2Model ----
(***************************************************************************)
(* WAV to FLAC batch converter: the command-line pipeline                  *)
(* (wav2flac_cmdline.py) and the GUI pipeline (wav2flac_gui.py,            *)
(* wav_flac_converter_gui.py): scan, capacity check, staging to a local    *)
(* cache, conversion under a bounded worker pool, summary and cache        *)
(* cleanup.                                                                *)
(*                                                                         *)
(* A path is a sequence of components; a component is <<stem, suffix>>     *)
(* (pathlib's Path.stem and Path.suffix), a directory has suffix "".       *)
(* The file system is fs (file path -> size) and dirs (directories that    *)
(* exist without holding a file).                                          *)
(***************************************************************************)
EXTENDS Integers, Sequences, FiniteSets, TLC

\* Largest number of WAV files in the source tree.
MaxFiles == 2
\* Largest number of CPU cores the user can choose.
MaxWorkers == 2
\* copy_threads = min(8, len(wav_files))
MaxCopyThreads == 8
\* Largest size of a WAV file, in bytes, where the sizes are drawn freely.
MaxSize == 5

VARIABLES
    entry,          \* "cli" (wav2flac_cmdline.main) or "gui" (WAVtoFLACConverter)
    use_cache,      \* staging enabled
    cache_dir,      \* the staging directory the user chose
    thread_count,   \* worker_count: width of the conversion pool
    fs,             \* files on disk: path -> size
    dirs,           \* directories on disk
    pc,             \* position of the coordinating thread
    exc,            \* exception propagating out of the coordinating thread
    is_converting,  \* GUI: the shared "still running" flag
    wav_files,      \* the files to convert (the scan result, later the staged files)
    input_dir,      \* where conversion reads from (cache_dir once staged)
    copy,           \* staging: file -> "queued" | "copying" | "done"
    cached_files,   \* staging: staged copies, in completion order
    failed_copies,  \* staging: files whose copy failed
    job,            \* conversion: wav_path -> state of its future
    summary,        \* the coordinator's counters and lists
    hist            \* history of the run (what happened, for stating properties)

vars == <<entry, use_cache, cache_dir, thread_count, fs, dirs, pc, exc,
          is_converting, wav_files, input_dir, copy, cached_files,
          failed_copies, job, summary, hist>>

----------------------------------------------------------------------------
(* Paths (pathlib.Path) *)

IsUnder(p, d) == Len(d) <= Len(p) /\ SubSeq(p, 1, Len(d)) = d

RelativeTo(p, d) == SubSeq(p, Len(d) + 1, Len(p))

Parent(p) == SubSeq(p, 1, Len(p) - 1)

Stem(p) == p[Len(p)][1]

PathName(p) == p[Len(p)][1] \o p[Len(p)][2]

\* The input directory the user entered, and its parent.
ParentDir == << <<"data", "">> >>
OriginalInputDir == ParentDir \o << <<"in", "">> >>

\* create_output_directory: <input-directory-name>_converted next to the input
create_output_directory(d) == Parent(d) \o << <<PathName(d) \o "_converted", "">> >>

OutputDir == create_output_directory(OriginalInputDir)

\* output_dir / relative_path.parent / (stem + ".flac")
OutputFilePath(wav_path, in_dir, out_dir) ==
    out_dir \o Parent(RelativeTo(wav_path, in_dir)) \o << <<Stem(wav_path), ".flac">> >>

\* A cache that keeps only the file name: cache_dir / wav_file.name
CachedFile_Flat(wav_file, in_dir, c_dir) == c_dir \o << wav_file[Len(wav_file)] >>

\* cache_dir / wav_file.relative_to(input_dir)
CachedFile(wav_file, in_dir, c_dir) == c_dir \o RelativeTo(wav_file, in_dir)

----------------------------------------------------------------------------
(* The source tree: the first n candidates, with their sizes in bytes. The *)
(* candidates are listed in the order sorted() gives their paths.           *)

Candidates ==
    << << <<"a", ".wav">> >>,
       << <<"sub", "">>, <<"b", ".wav">> >>,
       << <<"sub", "">>, <<"c", ".WAV">> >>,
       << <<"sub", "">>, <<"deep", "">>, <<"d", ".wav">> >>,
       << <<"x", ".WAV">> >>,
       << <<"x", ".Wav">> >>,
       << <<"x", ".wav">> >>,
       << <<"y", ".txt">> >> >>

CandidateSize == <<2, 1, 3, 4, 1, 1, 1, 1>>

SourcePath(i) == OriginalInputDir \o Candidates[i]

SourceTree(n) == [p \in {SourcePath(i) : i \in 1..n} |->
                    CandidateSize[CHOOSE i \in 1..n : SourcePath(i) = p]]

\* The staging directories the prompt accepts: any directory that can be
\* created and written to. Elsewhere, the input directory itself, its parent,
\* and a directory inside the input directory.
CacheDirChoices ==
    { << <<"cache", "">> >>,
      OriginalInputDir,
      ParentDir,
      OriginalInputDir \o << <<"sub", "">> >> }

----------------------------------------------------------------------------
(* File system helpers *)

Put(f, k, v) == [q \in DOMAIN f \cup {k} |-> IF q = k THEN v ELSE f[q]]

Exists(p) == p \in DOMAIN fs

DirExists(d) == d \in dirs \/ \E p \in DOMAIN fs : IsUnder(p, d)

\* shutil.rmtree(d): every file and directory under d, and d itself
RmtreeFiles(f, d) == [q \in {p \in DOMAIN f : ~IsUnder(p, d)} |-> f[q]]
RmtreeDirs(ds, d) == {x \in ds : ~IsUnder(x, d)}

Range(s) == {s[i] : i \in 1..Len(s)}

\* sorted(set(...)): the order of the candidates stands for the sort order
RECURSIVE SortedPaths(_, _)
SortedPaths(S, i) ==
    IF i > Len(Candidates) THEN <<>>
    ELSE (IF SourcePath(i) \in S THEN <<SourcePath(i)>> ELSE <<>>)
         \o SortedPaths(S, i + 1)

\* The extension in lower case
LowerSuffix(suffix) ==
    IF suffix \in {".wav", ".WAV", ".Wav", ".wAv"} THEN ".wav" ELSE suffix

\* directory.rglob('*' + pattern_suffix): the files under the directory whose
\* name matches the pattern; pathlib matches case-sensitively on POSIX and
\* without regard to case on Windows (fold_case)
Rglob(directory, pattern_suffix, fold_case) ==
    {p \in DOMAIN fs :
        /\ IsUnder(p, directory)
        /\ IF fold_case
           THEN LowerSuffix(p[Len(p)][2]) = LowerSuffix(pattern_suffix)
           ELSE p[Len(p)][2] = pattern_suffix}

\* return wav_files: the collected list as it is
SortedSet_AsListed(wav_files_list) == wav_files_list

\* sorted(set(wav_files))
SortedSet(wav_files_list) == SortedPaths(Range(wav_files_list), 1)

\* The orders in which a traversal can yield the files of S
Enumerations(S) == {l \in [1..Cardinality(S) -> S] : Range(l) = S}

\* find_wav_files: rglob('*.wav') and rglob('*.WAV'), deduplicated and sorted,
\* on POSIX. The result does not depend on the order of the traversal.
find_wav_files(directory) ==
    SortedPaths(Rglob(directory, ".wav", FALSE) \cup Rglob(directory, ".WAV", FALSE), 1)

\* f.stat() of every listed file raises FileNotFoundError when one is missing
StatAllOk(files) == \A i \in 1..Len(files) : Exists(files[i])

----------------------------------------------------------------------------
(* Initial state *)

NoSummary ==
    [successful_conversions |-> 0, failed_conversions |-> 0,
     converted_files |-> <<>>, failed_files |-> <<>>,
     total_input_size |-> 0, total_output_size |-> 0]

NoHist ==
    [discovered |-> <<>>,      \* the scanner's result
     scanned |-> FALSE,        \* the scan of the run has happened
     declined |-> FALSE,       \* refused at the capacity check or the confirmation
     stopped |-> FALSE,        \* Stop pressed / Ctrl+C during the run
     vanished |-> {},          \* source files removed by someone else
     cache_created |-> FALSE,  \* the program created the staging directory
     summary_done |-> FALSE,   \* the run reached its summary
     completed_msg |-> FALSE,  \* "Conversion completed!" published
     rmtree_failed |-> FALSE,  \* cache removal raised
     ui_reset |-> FALSE,       \* conversion_finished ran
     space_checked |-> FALSE,  \* check_cache_disk_space returned True
     usage |-> [queried |-> FALSE, failed |-> FALSE, free |-> 0],
                               \* what shutil.disk_usage gave
     prompted |-> FALSE,       \* "Proceed without disk space verification?" asked
     space_result |-> FALSE,   \* what check_cache_disk_space returned
     printed |-> "",           \* what main printed after the capacity check
     fold_case |-> FALSE,      \* the platform matches patterns without regard to case
     started |-> FALSE]        \* GUI: the run was confirmed and its worker thread started

Init ==
    /\ entry \in {"cli", "gui"}
    /\ use_cache \in BOOLEAN
    /\ cache_dir \in (IF use_cache THEN CacheDirChoices ELSE {<<>>})
    /\ thread_count \in 1..MaxWorkers
    /\ \E n \in 0..MaxFiles : fs = SourceTree(n)
    /\ dirs = {ParentDir, OriginalInputDir}
    /\ pc = "start"
    /\ exc = "none"
    /\ is_converting = FALSE
    /\ wav_files = <<>>
    /\ input_dir = OriginalInputDir
    /\ copy = <<>>
    /\ cached_files = <<>>
    /\ failed_copies = <<>>
    /\ job = <<>>
    /\ summary = NoSummary
    /\ hist = NoHist

----------------------------------------------------------------------------
(* The capacity check: check_cache_disk_space *)

\* total_size_bytes = sum(f.stat().st_size for f in wav_files)
RECURSIVE TotalSizeBytes(_)
TotalSizeBytes(files) ==
    IF files = <<>> THEN 0 ELSE fs[Head(files)] + TotalSizeBytes(Tail(files))

\* required_space_bytes = total_size_bytes * 1.2, in tenths of a byte. The
\* double product is exact to well under a tenth of a byte for every total
\* below 2^50 bytes, far above the sizes explored here.
RequiredSpaceTenths(total_size_bytes) == total_size_bytes * 12

\* What shutil.disk_usage(cache_dir) can give: it raises, or it returns the
\* free bytes, here anything up to a little over twice the total
DiskUsages(total_size_bytes) ==
    {[queried |-> TRUE, failed |-> TRUE, free |-> 0]}
    \cup {[queried |-> TRUE, failed |-> FALSE, free |-> f] :
              f \in 0..(2 * total_size_bytes + 1)}

\* The sign of free_space - required_space_bytes decides, equality is enough
SpaceSuffices_StrictlyMore(free_space, total_size_bytes) ==
    ~(free_space * 10 <= RequiredSpaceTenths(total_size_bytes))

\* if free_space < required_space_bytes: return False, else: return True
SpaceSuffices(free_space, total_size_bytes) ==
    ~(free_space * 10 < RequiredSpaceTenths(total_size_bytes))

\* The value check_cache_disk_space returns: the comparison, or, when the
\* query raised, the answer to "Proceed without disk space verification?"
check_cache_disk_space(files, usage, choice) ==
    IF usage.failed THEN choice
    ELSE SpaceSuffices(usage.free, TotalSizeBytes(files))

----------------------------------------------------------------------------
(* Staging to the cache *)

\* get_cache_directory (command line) and validate_inputs (GUI):
\* cache_dir.mkdir(parents=True, exist_ok=True)
MkdirCache(h) == [h EXCEPT !.cache_created = @ \/ ~DirExists(cache_dir)]

\* shutil.copy2(wav_file, cached_file) can succeed: the source is there and
\* the two paths are not the same file (SameFileError)
CopyCanSucceed(wav_file) ==
    /\ Exists(wav_file)
    /\ CachedFile(wav_file, OriginalInputDir, cache_dir) # wav_file

\* copy_single_file_to_cache and the bookkeeping of its result
\* (copy_files_to_cache, lines 528-548; GUI lines 721-754)
CopyOne(wav_file, ok) ==
    LET cached_file == CachedFile(wav_file, OriginalInputDir, cache_dir) IN
    /\ dirs' = dirs \cup {cache_dir}
    /\ hist' = MkdirCache(hist)
    /\ IF ok
       THEN /\ fs' = Put(fs, cached_file, fs[wav_file])
            /\ cached_files' = Append(cached_files, cached_file)
            /\ UNCHANGED failed_copies
       ELSE /\ failed_copies' = Append(failed_copies, wav_file)
            /\ UNCHANGED <<fs, cached_files>>

Copying == {p \in DOMAIN copy : copy[p] = "copying"}

\* The next task a free pool thread takes: the work queue is first in, first out
NextQueuedCopy(p) ==
    \E i \in 1..Len(wav_files) :
        /\ wav_files[i] = p
        /\ copy[p] = "queued"
        /\ \A k \in 1..(i - 1) : copy[wav_files[k]] # "queued"

Min(a, b) == IF a < b THEN a ELSE b

\* A copy pool with a thread for every file: max_workers=len(wav_files)
CopyPoolHasFreeThread_OnePerFile == Cardinality(Copying) < Len(wav_files)

\* ThreadPoolExecutor(max_workers=copy_threads)
CopyPoolHasFreeThread == Cardinality(Copying) < Min(MaxCopyThreads, Len(wav_files))

----------------------------------------------------------------------------
(* Cache cleanup *)

\* A cleanup that lets the error of rmtree out to its caller
cleanup_cache_Escalates(ok) ==
    IF DirExists(cache_dir)
    THEN IF ok
         THEN /\ fs' = RmtreeFiles(fs, cache_dir)
              /\ dirs' = RmtreeDirs(dirs, cache_dir)
              /\ hist' = hist
              /\ exc' = exc
         ELSE /\ hist' = [hist EXCEPT !.rmtree_failed = TRUE]
              /\ exc' = "OSError"
              /\ UNCHANGED <<fs, dirs>>
    ELSE /\ ok
         /\ UNCHANGED <<fs, dirs, hist, exc>>

\* cleanup_cache: rmtree the cache directory; a failure is caught (except
\* Exception) and is only a warning
cleanup_cache(ok) ==
    IF DirExists(cache_dir)
    THEN IF ok
         THEN /\ fs' = RmtreeFiles(fs, cache_dir)
              /\ dirs' = RmtreeDirs(dirs, cache_dir)
              /\ hist' = hist
              /\ exc' = exc
         ELSE /\ hist' = [hist EXCEPT !.rmtree_failed = TRUE]
              /\ exc' = exc
              /\ UNCHANGED <<fs, dirs>>
    ELSE /\ ok
         /\ UNCHANGED <<fs, dirs, hist, exc>>

----------------------------------------------------------------------------
(* One conversion job: convert_wav_to_flac_ffmpeg / convert_single_file *)

\* What the transcoder subprocess did: it ran into the 300 s timeout or
\* exited with a return code, and it wrote the destination file or not.
Outcomes ==
    { [timeout |-> FALSE, returncode |-> 0, wrote |-> TRUE],
      [timeout |-> FALSE, returncode |-> 0, wrote |-> FALSE],
      [timeout |-> FALSE, returncode |-> 1, wrote |-> FALSE],
      [timeout |-> FALSE, returncode |-> 1, wrote |-> TRUE],
      [timeout |-> TRUE,  returncode |-> -1, wrote |-> FALSE],
      [timeout |-> TRUE,  returncode |-> -1, wrote |-> TRUE] }

NoOutcome == [timeout |-> FALSE, returncode |-> -1, wrote |-> FALSE]

Result(success, message, input_size, output_size) ==
    [success |-> success, message |-> message,
     input_size |-> input_size, output_size |-> output_size]

\* ConvertResult with the timeout treated like a normal exit
ConvertResult_TimeoutAsExit(oc, dest_exists, dest_size, input_size) ==
    IF oc.timeout \/ oc.returncode = 0
    THEN IF dest_exists
         THEN Result(TRUE, "Converted", input_size, dest_size)
         ELSE Result(FALSE, "FFmpeg completed but output file not found",
                     input_size, 0)
    ELSE Result(FALSE, "FFmpeg error", input_size, 0)

\* ConvertResult without the check that the destination file exists
ConvertResult_NoExistsCheck(oc, dest_exists, dest_size, input_size) ==
    IF oc.timeout
    THEN Result(FALSE, "Conversion timed out (>5 minutes)", input_size, 0)
    ELSE IF oc.returncode = 0
         THEN Result(TRUE, "Converted", input_size, dest_size)
         ELSE Result(FALSE, "FFmpeg error", input_size, 0)

\* ConvertResult reporting the size of whatever file is at the destination
\* also for a nonzero exit code
ConvertResult_SizeOnError(oc, dest_exists, dest_size, input_size) ==
    IF oc.timeout
    THEN Result(FALSE, "Conversion timed out (>5 minutes)", input_size, 0)
    ELSE IF oc.returncode = 0
         THEN IF dest_exists
              THEN Result(TRUE, "Converted", input_size, dest_size)
              ELSE Result(FALSE, "FFmpeg completed but output file not found",
                          input_size, 0)
         ELSE Result(FALSE, "FFmpeg error", input_size, dest_size)

\* The value returned after subprocess.run (lines 301-324)
ConvertResult(oc, dest_exists, dest_size, input_size) ==
    IF oc.timeout
    THEN Result(FALSE, "Conversion timed out (>5 minutes)", input_size, 0)
    ELSE IF oc.returncode = 0
         THEN IF dest_exists
              THEN Result(TRUE, "Converted", input_size, dest_size)
              ELSE Result(FALSE, "FFmpeg completed but output file not found",
                          input_size, 0)
         ELSE Result(FALSE, "FFmpeg error", input_size, 0)

\* except Exception (lines 325-329): mkdir or stat raised before the launch
UnexpectedError(input_size) == Result(FALSE, "Unexpected error", input_size, 0)

QueuedJob ==
    [st |-> "queued", rec |-> 0, ran |-> FALSE, oc |-> NoOutcome,
     dest_seen |-> FALSE, res |-> Result(FALSE, "", 0, 0)]

Running == {p \in DOMAIN job : job[p].st = "running"}

\* A pool that starts a thread for every submitted job
PoolHasFreeWorker_Unbounded == Cardinality(Running) < Len(wav_files)

\* A pool whose threads are not given back when their job has returned
PoolHasFreeWorker_SlotsNeverFreed ==
    Cardinality({p \in DOMAIN job : job[p].st # "queued"}) < thread_count

\* ThreadPoolExecutor(max_workers=thread_count): a job starts only on a free thread
PoolHasFreeWorker == Cardinality(Running) < thread_count

\* The work queue of the pool is first in, first out
NextQueuedJob(p) ==
    \E i \in 1..Len(wav_files) :
        /\ wav_files[i] = p
        /\ job[p].st = "queued"
        /\ \A k \in 1..(i - 1) : job[wav_files[k]].st # "queued"

\* The pool lives from the submission to the end of the with block, whose
\* exit (shutdown(wait=True)) lets every queued job run.
PoolAlive == pc \in {"collect", "drain"}

\* Path.mkdir(parents=True, exist_ok=...): whether it returns normally. The
\* system call makes the directory or reports that it exists; an existing
\* directory is an error only without exist_ok. The file system may refuse
\* for its own reasons (permissions, a full disk).
MkdirParents_FailIfExists(d, exist_ok, permitted) ==
    permitted /\ ~DirExists(d)
MkdirParents(d, exist_ok, permitted) ==
    permitted /\ (exist_ok \/ ~DirExists(d))

\* A pool thread takes the next job: relative path, mkdir of the destination
\* directory, stat of the input, launch of the transcoder (lines 261-299)
JobStart(p) ==
    /\ PoolAlive
    /\ NextQueuedJob(p)
    /\ PoolHasFreeWorker
    /\ \E permitted \in BOOLEAN :
         IF MkdirParents(Parent(OutputFilePath(p, input_dir, OutputDir)),
                         TRUE, permitted)
         THEN /\ dirs' = dirs \cup {Parent(OutputFilePath(p, input_dir, OutputDir))}
              /\ IF Exists(p)
                 THEN job' = [job EXCEPT ![p].st = "running", ![p].ran = TRUE,
                                         ![p].res.input_size = fs[p]]
                 ELSE job' = [job EXCEPT ![p].st = "finished",
                                         ![p].res = UnexpectedError(0)]
         ELSE /\ job' = [job EXCEPT ![p].st = "finished",
                                    ![p].res = UnexpectedError(0)]
              /\ UNCHANGED dirs
    /\ UNCHANGED <<entry, use_cache, cache_dir, thread_count, fs, pc, exc,
                   is_converting, wav_files, input_dir, copy, cached_files,
                   failed_copies, summary, hist>>

\* The transcoder ends (or is cut off by the timeout) and the job returns
JobFinish(p) ==
    /\ p \in Running
    /\ \E oc \in Outcomes :
         LET output_file_path == OutputFilePath(p, input_dir, OutputDir)
             fs1 == IF oc.wrote THEN Put(fs, output_file_path, 1) ELSE fs
             dest_exists == output_file_path \in DOMAIN fs1
             dest_size == IF dest_exists THEN fs1[output_file_path] ELSE 0
         IN /\ fs' = fs1
            /\ job' = [job EXCEPT
                         ![p].st = "finished", ![p].oc = oc,
                         ![p].dest_seen = dest_exists,
                         ![p].res = ConvertResult(oc, dest_exists, dest_size,
                                                  job[p].res.input_size)]
    /\ UNCHANGED <<entry, use_cache, cache_dir, thread_count, dirs, pc, exc,
                   is_converting, wav_files, input_dir, copy, cached_files,
                   failed_copies, summary, hist>>

\* as_completed yields each future once, when it has finished
Yielded(p) == p \in DOMAIN job /\ job[p].st = "finished" /\ job[p].rec = 0

\* The coordinator's bookkeeping of one result (lines 806-822; GUI 867-876)
RecordResult_LostUpdate(s, r, relative_path, keep_lists) ==
    IF r.success
    THEN [s EXCEPT !.successful_conversions = IF @ = 0 THEN 1 ELSE @,
                   !.converted_files =
                       IF keep_lists THEN Append(@, relative_path) ELSE @,
                   !.total_input_size = @ + r.input_size,
                   !.total_output_size = @ + r.output_size]
    ELSE [s EXCEPT !.failed_conversions = IF @ = 0 THEN 1 ELSE @,
                   !.failed_files =
                       IF keep_lists THEN Append(@, <<relative_path, r.message>>)
                       ELSE @]
RecordResult(s, r, relative_path, keep_lists) ==
    IF r.success
    THEN [s EXCEPT !.successful_conversions = @ + 1,
                   !.converted_files =
                       IF keep_lists THEN Append(@, relative_path) ELSE @,
                   !.total_input_size = @ + r.input_size,
                   !.total_output_size = @ + r.output_size]
    ELSE [s EXCEPT !.failed_conversions = @ + 1,
                   !.failed_files =
                       IF keep_lists THEN Append(@, <<relative_path, r.message>>)
                       ELSE @]

\* The end of the with block: every job of the pool has run
DrainDone ==
    /\ pc = "drain"
    /\ \A p \in DOMAIN job : job[p].st = "finished"
    /\ pc' = IF exc = "none" THEN "summary" ELSE "finally"
    /\ UNCHANGED <<entry, use_cache, cache_dir, thread_count, fs, dirs, exc,
                   is_converting, wav_files, input_dir, copy, cached_files,
                   failed_copies, job, summary, hist>>

----------------------------------------------------------------------------
(* The command line: main() of wav2flac_cmdline.py *)

AllQueued(files, v) == [p \in Range(files) |-> v]

\* Lines 664-698, before the try block: the prompts (get_cache_directory
\* creates the cache directory), create_output_directory and setup_logging,
\* either of which may raise
CliPrologue ==
    /\ entry = "cli" /\ pc = "start"
    /\ hist' = IF use_cache THEN MkdirCache(hist) ELSE hist
    /\ \E ok \in BOOLEAN :
         IF ok
         THEN /\ dirs' = dirs \cup (IF use_cache THEN {cache_dir} ELSE {})
                              \cup {OutputDir}
              /\ pc' = "scan"
              /\ UNCHANGED exc
         ELSE /\ dirs' = dirs \cup (IF use_cache THEN {cache_dir} ELSE {})
              /\ pc' = "done"
              /\ exc' = "Exception"
    /\ UNCHANGED <<entry, use_cache, cache_dir, thread_count, fs,
                   is_converting, wav_files, input_dir, copy, cached_files,
                   failed_copies, job, summary>>

\* Lines 701-718: the scan; no file found returns
CliScan ==
    /\ entry = "cli" /\ pc = "scan"
    /\ wav_files' = find_wav_files(input_dir)
    /\ hist' = [hist EXCEPT !.discovered = wav_files', !.scanned = TRUE]
    /\ pc' = IF wav_files' = <<>> THEN "finally"
             ELSE IF use_cache THEN "capacity" ELSE "confirm"
    /\ UNCHANGED <<entry, use_cache, cache_dir, thread_count, fs, dirs, exc,
                   is_converting, input_dir, copy, cached_files,
                   failed_copies, job, summary>>

\* Lines 720-726 and check_cache_disk_space: the sizes are read with stat
\* outside its try block; the answer is go (True) or no-go (False)
CliCapacity ==
    /\ entry = "cli" /\ pc = "capacity"
    /\ IF ~StatAllOk(wav_files)
       THEN /\ exc' = "Exception" /\ pc' = "finally" /\ UNCHANGED hist
       ELSE \E usage \in DiskUsages(TotalSizeBytes(wav_files)), choice \in BOOLEAN :
              LET go == check_cache_disk_space(wav_files, usage, choice) IN
              /\ pc' = IF go THEN "confirm" ELSE "finally"
              /\ hist' = [hist EXCEPT !.declined = ~go, !.space_checked = go]
              /\ UNCHANGED exc
    /\ UNCHANGED <<entry, use_cache, cache_dir, thread_count, fs, dirs,
                   is_converting, wav_files, input_dir, copy, cached_files,
                   failed_copies, job, summary>>

\* Lines 728-753: the total size (stat of every file) and the confirmation
CliConfirm ==
    /\ entry = "cli" /\ pc = "confirm"
    /\ IF ~StatAllOk(wav_files)
       THEN /\ exc' = "Exception" /\ pc' = "finally" /\ UNCHANGED <<hist, copy>>
       ELSE \E confirm \in BOOLEAN :
              /\ pc' = IF ~confirm THEN "finally"
                       ELSE IF use_cache THEN "staging" ELSE "submit"
              /\ hist' = [hist EXCEPT !.declined = ~confirm]
              /\ copy' = IF confirm /\ use_cache
                         THEN AllQueued(wav_files, "queued") ELSE copy
              /\ UNCHANGED exc
    /\ UNCHANGED <<entry, use_cache, cache_dir, thread_count, fs, dirs,
                   is_converting, wav_files, input_dir, cached_files,
                   failed_copies, job, summary>>

\* copy_files_to_cache: a thread of the copy pool takes the next copy task
CliCopyStart(p) ==
    /\ entry = "cli" /\ pc \in {"staging", "copy_drain"}
    /\ NextQueuedCopy(p)
    /\ CopyPoolHasFreeThread
    /\ copy' = [copy EXCEPT ![p] = "copying"]
    /\ UNCHANGED <<entry, use_cache, cache_dir, thread_count, fs, dirs, pc, exc,
                   is_converting, wav_files, input_dir, cached_files,
                   failed_copies, job, summary, hist>>

\* copy_single_file_to_cache returns and its result is booked (lines 528-548);
\* after Ctrl+C the pool still drains but nothing is booked any more
CliCopyFinish(p) ==
    /\ entry = "cli" /\ pc \in {"staging", "copy_drain"}
    /\ p \in Copying
    /\ copy' = [copy EXCEPT ![p] = "done"]
    /\ \E ok \in BOOLEAN :
         /\ ok => CopyCanSucceed(p)
         /\ IF pc = "staging"
            THEN CopyOne(p, ok)
            ELSE /\ dirs' = dirs \cup {cache_dir}
                 /\ hist' = MkdirCache(hist)
                 /\ fs' = IF ok
                          THEN Put(fs, CachedFile(p, OriginalInputDir, cache_dir), fs[p])
                          ELSE fs
                 /\ UNCHANGED <<cached_files, failed_copies>>
    /\ UNCHANGED <<entry, use_cache, cache_dir, thread_count, pc, exc,
                   is_converting, wav_files, input_dir, job, summary>>

\* Staging that returns as soon as a result is in, while copies still run
CliStagingDone_NoWait ==
    /\ entry = "cli" /\ pc = "staging"
    /\ \E p \in DOMAIN copy : copy[p] = "done"
    /\ IF cached_files = <<>>
       THEN pc' = "finally" /\ UNCHANGED <<wav_files, input_dir>>
       ELSE pc' = "submit" /\ wav_files' = cached_files /\ input_dir' = cache_dir
    /\ UNCHANGED <<entry, use_cache, cache_dir, thread_count, fs, dirs, exc,
                   is_converting, copy, cached_files, failed_copies, job,
                   summary, hist>>

\* Lines 550-555 and 758-771: no staged file stops the run; otherwise the
\* staged files are what is converted, read from the cache directory
CliStagingDone ==
    /\ entry = "cli" /\ pc = "staging"
    /\ \A p \in DOMAIN copy : copy[p] = "done"
    /\ IF cached_files = <<>>
       THEN pc' = "finally" /\ UNCHANGED <<wav_files, input_dir>>
       ELSE pc' = "submit" /\ wav_files' = cached_files /\ input_dir' = cache_dir
    /\ UNCHANGED <<entry, use_cache, cache_dir, thread_count, fs, dirs, exc,
                   is_converting, copy, cached_files, failed_copies, job,
                   summary, hist>>

\* The copy pool's with block ends under a pending KeyboardInterrupt
CliCopyDrainDone ==
    /\ entry = "cli" /\ pc = "copy_drain"
    /\ \A p \in DOMAIN copy : copy[p] = "done"
    /\ pc' = "finally"
    /\ UNCHANGED <<entry, use_cache, cache_dir, thread_count, fs, dirs, exc,
                   is_converting, wav_files, input_dir, copy, cached_files,
                   failed_copies, job, summary, hist>>

\* Lines 786-801: the total input size (stat of every file to convert), then
\* the pool is created and every job is submitted
CliSubmit ==
    /\ entry = "cli" /\ pc = "submit"
    /\ IF ~StatAllOk(wav_files)
       THEN exc' = "Exception" /\ pc' = "finally" /\ UNCHANGED job
       ELSE job' = AllQueued(wav_files, QueuedJob) /\ pc' = "collect"
            /\ UNCHANGED exc
    /\ UNCHANGED <<entry, use_cache, cache_dir, thread_count, fs, dirs,
                   is_converting, wav_files, input_dir, copy, cached_files,
                   failed_copies, summary, hist>>

\* Lines 805-822: one pass of the as_completed loop
CliRecord(p) ==
    /\ entry = "cli" /\ pc = "collect"
    /\ Yielded(p)
    /\ job' = [job EXCEPT ![p].rec = @ + 1]
    /\ summary' = RecordResult(summary, job[p].res, RelativeTo(p, input_dir), TRUE)
    /\ UNCHANGED <<entry, use_cache, cache_dir, thread_count, fs, dirs, pc, exc,
                   is_converting, wav_files, input_dir, copy, cached_files,
                   failed_copies, hist>>

\* as_completed is exhausted: every future has been yielded
LoopEnd ==
    /\ pc = "collect"
    /\ \A p \in DOMAIN job : job[p].st = "finished" /\ ~Yielded(p)
    /\ pc' = "drain"
    /\ UNCHANGED <<entry, use_cache, cache_dir, thread_count, fs, dirs, exc,
                   is_converting, wav_files, input_dir, copy, cached_files,
                   failed_copies, job, summary, hist>>

\* Ctrl+C: KeyboardInterrupt in the main thread; a with block it is raised in
\* still waits for its pool (shutdown(wait=True)). The wait is itself
\* interrupted by a Ctrl+C that arrives while the conversion pool is
\* draining: the exception leaves the with block for the finally clause
\* while the pool's threads go on.
CliInterrupt ==
    /\ entry = "cli"
    /\ pc \in {"scan", "capacity", "confirm", "staging", "submit", "collect",
              "drain"}
    /\ exc' = "KeyboardInterrupt"
    /\ hist' = [hist EXCEPT !.stopped = TRUE]
    /\ pc' = IF pc = "collect" THEN "drain"
             ELSE IF pc = "staging" THEN "copy_drain" ELSE "finally"
    /\ UNCHANGED <<entry, use_cache, cache_dir, thread_count, fs, dirs,
                   is_converting, wav_files, input_dir, copy, cached_files,
                   failed_copies, job, summary>>

\* Lines 824-872: the summary
CliSummary ==
    /\ entry = "cli" /\ pc = "summary"
    /\ hist' = [hist EXCEPT !.summary_done = TRUE]
    /\ pc' = "finally"
    /\ UNCHANGED <<entry, use_cache, cache_dir, thread_count, fs, dirs, exc,
                   is_converting, wav_files, input_dir, copy, cached_files,
                   failed_copies, job, summary>>

\* Lines 874-877: finally: if cache_dir and cache_dir.exists(): cleanup_cache
CliFinally ==
    /\ entry = "cli" /\ pc = "finally"
    /\ IF use_cache
       THEN \E ok \in BOOLEAN : cleanup_cache(ok)
       ELSE UNCHANGED <<fs, dirs, hist, exc>>
    /\ pc' = "done"
    /\ UNCHANGED <<entry, use_cache, cache_dir, thread_count,
                   is_converting, wav_files, input_dir, copy, cached_files,
                   failed_copies, job, summary>>

----------------------------------------------------------------------------
(* The GUI: WAVtoFLACConverter of wav2flac_gui.py / wav_flac_converter_gui.py *)

\* start_conversion: validate_inputs (which creates the cache directory), the
\* scan, the confirmation dialog, then the worker thread is started
GuiStart ==
    /\ entry = "gui" /\ pc = "start"
    /\ dirs' = dirs \cup (IF use_cache THEN {cache_dir} ELSE {})
    /\ LET found == find_wav_files(OriginalInputDir)
           h == [(IF use_cache THEN MkdirCache(hist) ELSE hist)
                    EXCEPT !.discovered = found, !.scanned = TRUE]
       IN IF found = <<>>
          THEN pc' = "done" /\ hist' = h /\ UNCHANGED is_converting
          ELSE \E confirm \in BOOLEAN :
                 /\ pc' = IF confirm THEN "w_setup" ELSE "done"
                 /\ is_converting' = confirm
                 /\ hist' = [h EXCEPT !.declined = ~confirm, !.started = confirm]
    /\ UNCHANGED <<entry, use_cache, cache_dir, thread_count, fs, exc,
                   wav_files, input_dir, copy, cached_files, failed_copies,
                   job, summary>>

\* conversion_worker, lines 807-832: output directory, logging, the worker's
\* own scan. cache_dir_path is assigned only after the scan: when mkdir raises
\* or no file is found, the finally clause reads the unbound local, raises
\* UnboundLocalError and never schedules conversion_finished.
GuiWorkerSetup ==
    /\ entry = "gui" /\ pc = "w_setup"
    /\ \E mkdir_ok \in BOOLEAN :
         LET found == IF mkdir_ok THEN find_wav_files(OriginalInputDir) ELSE <<>>
         IN /\ dirs' = IF mkdir_ok THEN dirs \cup {OutputDir} ELSE dirs
            /\ wav_files' = found
            /\ hist' = IF mkdir_ok THEN [hist EXCEPT !.discovered = found] ELSE hist
            /\ IF found = <<>>
               THEN pc' = "done" /\ exc' = "UnboundLocalError" /\ UNCHANGED copy
               ELSE /\ pc' = IF use_cache THEN "staging" ELSE "submit"
                    /\ copy' = IF use_cache THEN AllQueued(found, "queued") ELSE copy
                    /\ UNCHANGED exc
    /\ UNCHANGED <<entry, use_cache, cache_dir, thread_count, fs,
                   is_converting, input_dir, cached_files, failed_copies,
                   job, summary>>

\* copy_files_to_cache, one pass of its loop (lines 717-754): the flag is
\* checked, then the next file is copied
GuiCopyNext(p) ==
    /\ entry = "gui" /\ pc = "staging"
    /\ is_converting
    /\ NextQueuedCopy(p)
    /\ copy' = [copy EXCEPT ![p] = "done"]
    /\ \E ok \in BOOLEAN :
         /\ ok => CopyCanSucceed(p)
         /\ CopyOne(p, ok)
    /\ UNCHANGED <<entry, use_cache, cache_dir, thread_count, pc, exc,
                   is_converting, wav_files, input_dir, job, summary>>

\* A worker that goes on to the conversion without looking at the flag
GuiStagingDone_NoRecheck ==
    /\ entry = "gui" /\ pc = "staging"
    /\ (\A p \in DOMAIN copy : copy[p] = "done") \/ ~is_converting
    /\ pc' = "submit" /\ wav_files' = cached_files /\ input_dir' = cache_dir
    /\ UNCHANGED <<entry, use_cache, cache_dir, thread_count, fs, dirs, exc,
                   is_converting, copy, cached_files, failed_copies, job,
                   summary, hist>>

\* The loop ends (every file tried, or the flag was found false) and
\* conversion_worker checks the flag again (lines 836-842)
GuiStagingDone ==
    /\ entry = "gui" /\ pc = "staging"
    /\ (\A p \in DOMAIN copy : copy[p] = "done") \/ ~is_converting
    /\ IF ~is_converting
       THEN pc' = "finally" /\ UNCHANGED <<wav_files, input_dir>>
       ELSE pc' = "submit" /\ wav_files' = cached_files /\ input_dir' = cache_dir
    /\ UNCHANGED <<entry, use_cache, cache_dir, thread_count, fs, dirs, exc,
                   is_converting, copy, cached_files, failed_copies, job,
                   summary, hist>>

\* Lines 853-860: the pool is created and every job is submitted
GuiSubmit ==
    /\ entry = "gui" /\ pc = "submit"
    /\ job' = AllQueued(wav_files, QueuedJob)
    /\ pc' = "collect"
    /\ UNCHANGED <<entry, use_cache, cache_dir, thread_count, fs, dirs, exc,
                   is_converting, wav_files, input_dir, copy, cached_files,
                   failed_copies, summary, hist>>

\* Lines 863-878: one pass of the as_completed loop with the flag still set
GuiRecord(p) ==
    /\ entry = "gui" /\ pc = "collect"
    /\ Yielded(p)
    /\ is_converting
    /\ job' = [job EXCEPT ![p].rec = @ + 1]
    /\ summary' = RecordResult(summary, job[p].res, RelativeTo(p, input_dir), FALSE)
    /\ UNCHANGED <<entry, use_cache, cache_dir, thread_count, fs, dirs, pc, exc,
                   is_converting, wav_files, input_dir, copy, cached_files,
                   failed_copies, hist>>

\* Lines 864-865: a future is yielded and the flag is false: break
GuiBreak ==
    /\ entry = "gui" /\ pc = "collect"
    /\ \E p \in DOMAIN job : Yielded(p)
    /\ ~is_converting
    /\ pc' = "drain"
    /\ UNCHANGED <<entry, use_cache, cache_dir, thread_count, fs, dirs, exc,
                   is_converting, wav_files, input_dir, copy, cached_files,
                   failed_copies, job, summary, hist>>

\* Lines 880-889: the summary and the final progress event
GuiSummary ==
    /\ entry = "gui" /\ pc = "summary"
    /\ hist' = [hist EXCEPT !.summary_done = TRUE, !.completed_msg = TRUE]
    /\ pc' = "finally"
    /\ UNCHANGED <<entry, use_cache, cache_dir, thread_count, fs, dirs, exc,
                   is_converting, wav_files, input_dir, copy, cached_files,
                   failed_copies, job, summary>>

\* Lines 896-902: finally: if cache_dir_path: cleanup_cache; then
\* conversion_finished is scheduled on the UI thread
GuiFinally ==
    /\ entry = "gui" /\ pc = "finally"
    /\ IF use_cache
       THEN \E ok \in BOOLEAN : cleanup_cache(ok)
       ELSE UNCHANGED <<fs, dirs, hist, exc>>
    /\ pc' = "ui_finish"
    /\ UNCHANGED <<entry, use_cache, cache_dir, thread_count,
                   is_converting, wav_files, input_dir, copy, cached_files,
                   failed_copies, job, summary>>

\* conversion_finished
GuiConversionFinished ==
    /\ entry = "gui" /\ pc = "ui_finish"
    /\ is_converting' = FALSE
    /\ hist' = [hist EXCEPT !.ui_reset = TRUE]
    /\ pc' = "done"
    /\ UNCHANGED <<entry, use_cache, cache_dir, thread_count, fs, dirs, exc,
                   wav_files, input_dir, copy, cached_files, failed_copies,
                   job, summary>>

\* stop_conversion
GuiStop ==
    /\ entry = "gui"
    /\ is_converting
    /\ is_converting' = FALSE
    /\ hist' = [hist EXCEPT !.stopped = TRUE]
    /\ UNCHANGED <<entry, use_cache, cache_dir, thread_count, fs, dirs, pc, exc,
                   wav_files, input_dir, copy, cached_files, failed_copies,
                   job, summary>>

----------------------------------------------------------------------------
(* The environment *)

\* The run has still to read the source file p: its sizes are read with stat
\* up to the submission, its copy or its job has not been taken yet
StillRead(p) ==
    IF p \in DOMAIN job THEN job[p].st = "queued"
    ELSE IF p \in DOMAIN copy THEN copy[p] # "done"
    ELSE pc \in {"capacity", "confirm", "submit", "w_setup"}

\* Someone else removes a discovered source file that the run has still to read
Vanish(p) ==
    /\ hist.scanned /\ pc # "done"
    /\ hist.vanished = {}
    /\ p \in Range(hist.discovered) /\ Exists(p)
    /\ StillRead(p)
    /\ fs' = RmtreeFiles(fs, p)
    /\ hist' = [hist EXCEPT !.vanished = {p}]
    /\ UNCHANGED <<entry, use_cache, cache_dir, thread_count, dirs, pc, exc,
                   is_converting, wav_files, input_dir, copy, cached_files,
                   failed_copies, job, summary>>

----------------------------------------------------------------------------

AllPaths == DOMAIN fs \cup DOMAIN copy \cup DOMAIN job

Next ==
    \/ CliPrologue
    \/ CliScan
    \/ CliCapacity
    \/ CliConfirm
    \/ \E p \in AllPaths : CliCopyStart(p)
    \/ \E p \in AllPaths : CliCopyFinish(p)
    \/ CliStagingDone
    \/ CliCopyDrainDone
    \/ CliSubmit
    \/ \E p \in AllPaths : JobStart(p)
    \/ \E p \in AllPaths : JobFinish(p)
    \/ \E p \in AllPaths : CliRecord(p)
    \/ LoopEnd
    \/ DrainDone
    \/ CliInterrupt
    \/ CliSummary
    \/ CliFinally
    \/ GuiStart
    \/ GuiWorkerSetup
    \/ \E p \in AllPaths : GuiCopyNext(p)
    \/ GuiStagingDone
    \/ GuiSubmit
    \/ \E p \in AllPaths : GuiRecord(p)
    \/ GuiBreak
    \/ GuiSummary
    \/ GuiFinally
    \/ GuiConversionFinished
    \/ GuiStop
    \/ \E p \in AllPaths : Vanish(p)

Spec == Init /\ [][Next]_vars

----------------------------------------------------------------------------
(* Properties *)

\* The size the scanner saw for a discovered source file
DiscoveredSize(p) == SourceTree(Len(Candidates))[p]

RECURSIVE SumDiscovered(_)
SumDiscovered(files) ==
    IF files = <<>> THEN 0
    ELSE DiscoveredSize(Head(files)) + SumDiscovered(Tail(files))

RECURSIVE SumInputSizes(_)
SumInputSizes(S) ==
    IF S = {} THEN 0
    ELSE LET p == CHOOSE q \in S : TRUE
         IN job[p].res.input_size + SumInputSizes(S \ {p})

Finished == {p \in DOMAIN job : job[p].st = "finished"}
Recorded == {p \in DOMAIN job : job[p].rec > 0}

\* The file a discovered source file is converted from
JobKey(src) ==
    IF use_cache THEN CachedFile(src, OriginalInputDir, cache_dir) ELSE src

\* C1: when a run reaches its summary, every file the scanner returned has
\* exactly one recorded result, and successful + failed is the number of
\* discovered files.
C1_EveryFileOneResult ==
    hist.summary_done =>
        /\ \A i \in 1..Len(hist.discovered) :
              /\ JobKey(hist.discovered[i]) \in DOMAIN job
              /\ job[JobKey(hist.discovered[i])].rec = 1
        /\ summary.successful_conversions + summary.failed_conversions
              = Len(hist.discovered)

\* C2: at the summary, the input sizes of the successful results plus those
\* of the failed results add up to the sizes of the discovered files.
C2_InputSizesAddUp ==
    hist.summary_done =>
        SumInputSizes({p \in Finished : job[p].res.success})
          + SumInputSizes({p \in Finished : ~job[p].res.success})
          = SumDiscovered(hist.discovered)

\* C3: if the program created a staging directory, the directory does not
\* exist once the run has ended, whether it completed, found no files, was
\* refused, raised or was cancelled (stated here for the runs that got as far
\* as a scan and in which the removal itself did not fail).
C3_StagingDirGoneAfterRun ==
    (pc = "done" /\ hist.cache_created /\ hist.scanned /\ ~hist.rmtree_failed)
        => ~DirExists(cache_dir)

\* C4: no step of the program removes or changes a discovered source file:
\* every discovered file that nobody else removed is on disk with its size.
C4_SourcesReadOnly ==
    \A i \in 1..Len(hist.discovered) :
        LET p == hist.discovered[i]
        IN p \notin hist.vanished => (Exists(p) /\ fs[p] = DiscoveredSize(p))

\* C5: once the GUI's flag is false, no queued conversion job is started.
C5_NoLaunchAfterStop ==
    [][\A p \in DOMAIN job :
          (entry = "gui" /\ ~is_converting /\ job[p].st = "queued")
              => job'[p].st = "queued"]_vars

\* C6: a per-file failure never aborts the batch: in a run without staging
\* over several files that was confirmed, not stopped, and whose setup
\* succeeded, whatever happens to a single file (its job fails, or it
\* disappears after the scan), the run reaches its summary and every
\* discovered file has its result recorded.
C6_FailuresNeverAbort ==
    (/\ pc = "done" /\ ~use_cache
     /\ Len(hist.discovered) > 1 /\ ~hist.declined /\ ~hist.stopped
     /\ exc # "UnboundLocalError")
    => /\ hist.summary_done
       /\ \A i \in 1..Len(hist.discovered) :
             /\ hist.discovered[i] \in DOMAIN job
             /\ job[hist.discovered[i]].rec = 1

\* C7: the number of transcoder subprocesses running at the same time is
\* at most worker_count.
C7_PoolBounded == Cardinality(Running) <= thread_count

C7_Witness ==
    /\ Len(wav_files) > thread_count
    /\ Cardinality(Running) = thread_count
    /\ \E p \in DOMAIN job : job[p].st = "queued"

\* C8: a job whose transcoder ran into the timeout has a result tagged
\* failure with the timeout message, also when the destination file exists.
C8_TimeoutIsFailure ==
    \A p \in Finished :
        job[p].oc.timeout =>
            /\ ~job[p].res.success
            /\ job[p].res.message = "Conversion timed out (>5 minutes)"

C8_Witness ==
    \E p \in Finished : job[p].oc.timeout /\ job[p].dest_seen /\ job[p].rec = 1

\* C9: exit code 0 with no destination file afterwards is a failure
\* (output missing despite success).
C9_MissingOutputIsFailure ==
    \A p \in Finished :
        (job[p].ran /\ ~job[p].oc.timeout /\ job[p].oc.returncode = 0
           /\ ~job[p].dest_seen)
        => /\ ~job[p].res.success
           /\ job[p].res.message = "FFmpeg completed but output file not found"

C9_Witness ==
    \E p \in Finished :
        /\ job[p].ran /\ ~job[p].oc.timeout /\ job[p].oc.returncode = 0
        /\ ~job[p].dest_seen /\ job[p].rec = 1

\* C10: a result is tagged success exactly when the transcoder exited with
\* code 0, did not time out and the destination file exists; every failure
\* has output size 0; and a recorded result counts in exactly one of the
\* two counters.
C10_SuccessIffCleanExit ==
    /\ \A p \in Finished :
          /\ job[p].res.success <=>
                (/\ job[p].ran /\ ~job[p].oc.timeout
                 /\ job[p].oc.returncode = 0 /\ job[p].dest_seen)
          /\ ~job[p].res.success => job[p].res.output_size = 0
    /\ summary.successful_conversions
          = Cardinality({p \in Recorded : job[p].res.success})
    /\ summary.failed_conversions
          = Cardinality({p \in Recorded : ~job[p].res.success})

C10_Witness ==
    /\ \E p \in Recorded : job[p].res.success /\ job[p].res.output_size > 0
    /\ \E p \in Recorded :
          /\ job[p].ran /\ job[p].oc.returncode = 1 /\ job[p].dest_seen
          /\ ~job[p].res.success

\* C11: staging is transparent to the output layout: for every discovered
\* file whose staged copy is dispatched, also one directly at the root, the
\* destination computed for the staged copy relative to the staging root is
\* destination_root / relative_path.parent / (stem + ".flac") of the original
\* file relative to the original root.
C11_StagingTransparent ==
    use_cache =>
        \A i \in 1..Len(hist.discovered) :
            LET src == hist.discovered[i]
                staged == CachedFile(src, OriginalInputDir, cache_dir)
                relative_path == RelativeTo(src, OriginalInputDir)
            IN staged \in DOMAIN job =>
                  OutputFilePath(staged, input_dir, OutputDir)
                      = OutputDir \o Parent(relative_path)
                                 \o << <<Stem(src), ".flac">> >>

C11_Witness ==
    /\ use_cache
    /\ \E i \in 1..Len(hist.discovered) :
          LET src == hist.discovered[i]
              staged == CachedFile(src, OriginalInputDir, cache_dir)
          IN /\ Parent(RelativeTo(src, OriginalInputDir)) = <<>>
             /\ staged # src
             /\ staged \in DOMAIN job /\ job[staged].ran
    /\ \E i \in 1..Len(hist.discovered) :
          LET src == hist.discovered[i]
              staged == CachedFile(src, OriginalInputDir, cache_dir)
          IN /\ Parent(RelativeTo(src, OriginalInputDir)) # <<>>
             /\ staged \in DOMAIN job /\ job[staged].ran

----------------------------------------------------------------------------
(* The scan alone: an entry point up to its scan, over every tree that the *)
(* candidates can form                                                     *)

TreeOf(S) == [p \in S |-> DiscoveredSize(p)]

ScanInit ==
    /\ entry \in {"cli", "gui"}
    /\ use_cache = FALSE
    /\ cache_dir = <<>>
    /\ thread_count = 1
    /\ \E S \in SUBSET {SourcePath(i) : i \in 1..Len(Candidates)} : fs = TreeOf(S)
    /\ dirs = {ParentDir, OriginalInputDir}
    /\ pc = "start"
    /\ exc = "none"
    /\ is_converting = FALSE
    /\ wav_files = <<>>
    /\ input_dir = OriginalInputDir
    /\ copy = <<>>
    /\ cached_files = <<>>
    /\ failed_copies = <<>>
    /\ job = <<>>
    /\ summary = NoSummary
    /\ hist = NoHist

ScanNext ==
    \/ CliPrologue
    \/ CliScan
    \/ GuiStart

ScanSpec == ScanInit /\ [][ScanNext]_vars

\* C12: any two distinct files the scanner returned map to distinct
\* destination paths, also two files of one directory that differ only in
\* the case of their extension.
C12_DestinationsDisjoint ==
    \A i, j \in 1..Len(hist.discovered) :
        i # j => OutputFilePath(hist.discovered[i], OriginalInputDir, OutputDir)
                    # OutputFilePath(hist.discovered[j], OriginalInputDir, OutputDir)

----------------------------------------------------------------------------
(* The capacity check alone: the command line at its capacity check, over  *)
(* file sizes from 0 to MaxSize, every answer of the free-space query and  *)
(* both answers to the prompt                                              *)

CapacityCacheDir == << <<"cache", "">> >>

SizedTree(n, sz) == [p \in {SourcePath(i) : i \in 1..n} |->
                       sz[CHOOSE i \in 1..n : SourcePath(i) = p]]

CapacityInit ==
    /\ entry = "cli"
    /\ use_cache = TRUE
    /\ cache_dir = CapacityCacheDir
    /\ thread_count = 1
    /\ \E n \in 1..MaxFiles : \E sz \in [1..n -> 0..MaxSize] : fs = SizedTree(n, sz)
    /\ dirs = {ParentDir, OriginalInputDir, OutputDir, CapacityCacheDir}
    /\ pc = "capacity"
    /\ exc = "none"
    /\ is_converting = FALSE
    /\ input_dir = OriginalInputDir
    /\ wav_files = find_wav_files(input_dir)
    /\ copy = <<>>
    /\ cached_files = <<>>
    /\ failed_copies = <<>>
    /\ job = <<>>
    /\ summary = NoSummary
    /\ hist = [NoHist EXCEPT !.discovered = wav_files, !.scanned = TRUE,
                             !.cache_created = TRUE]

\* check_cache_disk_space runs and returns (lines 461-504): the free-space
\* query, then the comparison or, when the query raised, the prompt
CapacityCheckReturns ==
    /\ pc = "capacity"
    /\ \E usage \in DiskUsages(TotalSizeBytes(wav_files)), choice \in BOOLEAN :
         /\ ~usage.failed => ~choice
         /\ hist' = [hist EXCEPT
                        !.usage = usage,
                        !.prompted = usage.failed,
                        !.space_result =
                            check_cache_disk_space(wav_files, usage, choice)]
    /\ pc' = "capacity_returned"
    /\ UNCHANGED <<entry, use_cache, cache_dir, thread_count, fs, dirs, exc,
                   is_converting, wav_files, input_dir, copy, cached_files,
                   failed_copies, job, summary>>

\* main, lines 722-726: on False the message and the return, on True on to
\* the confirmation
CapacityCallerDecides ==
    /\ pc = "capacity_returned"
    /\ IF ~hist.space_result
       THEN /\ hist' = [hist EXCEPT
                          !.declined = TRUE,
                          !.printed = "Cannot proceed due to insufficient disk space for caching."]
            /\ pc' = "finally"
       ELSE /\ hist' = [hist EXCEPT
                          !.space_checked = TRUE,
                          !.printed = "Cache disk space check passed."]
            /\ pc' = "confirm"
    /\ UNCHANGED <<entry, use_cache, cache_dir, thread_count, fs, dirs, exc,
                   is_converting, wav_files, input_dir, copy, cached_files,
                   failed_copies, job, summary>>

CapacityNext ==
    \/ CapacityCheckReturns
    \/ CapacityCallerDecides

CapacitySpec == CapacityInit /\ [][CapacityNext]_vars

\* The free-space query of the run succeeded and the check has returned
SpaceCompared == hist.usage.queried /\ ~hist.usage.failed

\* C13 as stated: the check reports sufficient exactly when the free bytes
\* are at least 1.2 times the sum of the file sizes (5*available >= 6*total);
\* available equal to the total gives insufficient, available equal to twice
\* the total gives sufficient, available equal to the required amount gives
\* sufficient.
C13_CapacityRule ==
    SpaceCompared =>
        LET total == TotalSizeBytes(wav_files)
            available == hist.usage.free
        IN /\ hist.space_result <=> (5 * available >= 6 * total)
           /\ available = total => ~hist.space_result
           /\ available = 2 * total => hist.space_result
           /\ 5 * available = 6 * total => hist.space_result

\* C13 amended: the same, except that available equal to the total gives
\* insufficient only when the total is above zero (files of size zero need
\* no space, and zero free bytes are then enough).
C13_CapacityRuleAmended ==
    SpaceCompared =>
        LET total == TotalSizeBytes(wav_files)
            available == hist.usage.free
        IN /\ hist.space_result <=> (5 * available >= 6 * total)
           /\ (available = total /\ total > 0) => ~hist.space_result
           /\ available = 2 * total => hist.space_result
           /\ 5 * available = 6 * total => hist.space_result

C13_Witness ==
    /\ SpaceCompared
    /\ TotalSizeBytes(wav_files) > 0
    /\ 5 * hist.usage.free = 6 * TotalSizeBytes(wav_files)
    /\ hist.space_result
    /\ hist.printed = "Cache disk space check passed."

\* The free-space query of the run raised and main has acted on the answer
QueryFailedAndDecided ==
    /\ hist.usage.queried /\ hist.usage.failed
    /\ pc \in {"confirm", "finally"}

\* C14: when the free-space query fails, what the check returns differs from
\* what it returns for Insufficient and for Sufficient; the run goes on
\* after a failed query only by an explicit decision to proceed; and a
\* declined failed query is not reported as insufficient space.
C14_UnknownToldApart ==
    QueryFailedAndDecided =>
        /\ \A u \in DiskUsages(TotalSizeBytes(wav_files)) :
               ~u.failed => hist.space_result
                               # check_cache_disk_space(wav_files, u, FALSE)
        /\ hist.space_checked => hist.prompted
        /\ hist.declined =>
               hist.printed # "Cannot proceed due to insufficient disk space for caching."

\* A file is being copied or has been copied to the staging directory
CopyStarted == Copying # {} \/ cached_files # <<>>

\* The capacity check has run and its answer was no-go
CapacityNoGo == entry = "cli" /\ hist.declined /\ ~hist.space_checked

\* C15: in every run with staging enabled, in every entry point, no file is
\* copied to the staging directory before the capacity check has run on the
\* discovered files and returned go; after a no-go no file is copied and no
\* file is converted.
C15_CapacityBeforeCopy ==
    use_cache =>
        /\ CopyStarted => hist.space_checked
        /\ CapacityNoGo => (~CopyStarted /\ DOMAIN job = {})

\* Staging was tried for every file and staged none
ZeroStaged ==
    /\ use_cache
    /\ DOMAIN copy # {}
    /\ \A p \in DOMAIN copy : copy[p] = "done"
    /\ cached_files = <<>>

\* C16: when staging is enabled and zero files are staged, the run is
\* aborted: the conversion phase is never entered, no transcoder is invoked,
\* and the run is not reported as a completed conversion; in every entry
\* point.
C16_ZeroStagedAborts ==
    ZeroStaged =>
        /\ pc \notin {"submit", "collect", "drain", "summary"}
        /\ \A p \in DOMAIN job : ~job[p].ran
        /\ ~hist.summary_done
        /\ ~hist.completed_msg

\* The counts of the final summary: the command line prints and logs the
\* successful and the failed conversions and "Files processed:
\* len(wav_files)" (lines 824-858); the GUI logs "Successful: ..., Failed:
\* ..." (lines 880-887)
SummaryReport ==
    IF entry = "cli"
    THEN [successful_conversions |-> summary.successful_conversions,
          failed_conversions |-> summary.failed_conversions,
          files_processed |-> Len(wav_files)]
    ELSE [successful |-> summary.successful_conversions,
          failed |-> summary.failed_conversions]

\* Staging tried every discovered file; some copies failed, not all
PartlyStaged ==
    /\ use_cache
    /\ Len(cached_files) + Len(failed_copies) = Len(hist.discovered)
    /\ 0 < Len(failed_copies)
    /\ Len(failed_copies) < Len(hist.discovered)

\* C17: when k of N files fail to copy during staging (0 < k < N), exactly
\* the N-k staged files are dispatched to conversion, a file whose copy
\* failed is never passed to the transcoder, and the final summary of the
\* run reports k staging failures as a count of its own.
C17_PartialStagingReported ==
    (PartlyStaged /\ hist.summary_done) =>
        /\ DOMAIN job = Range(cached_files)
        /\ Cardinality(DOMAIN job) = Len(hist.discovered) - Len(failed_copies)
        /\ \A i \in 1..Len(failed_copies) :
               /\ failed_copies[i] \notin DOMAIN job
               /\ CachedFile(failed_copies[i], OriginalInputDir, cache_dir)
                      \notin DOMAIN job
        /\ "staging_failures" \in DOMAIN SummaryReport
        /\ SummaryReport.staging_failures = Len(failed_copies)

----------------------------------------------------------------------------
(* Staging alone: the command line at copy_files_to_cache, with up to one  *)
(* file more than the copy pool can have threads. The cache directory is   *)
(* the input directory, so every copy ends in SameFileError.               *)

BatchSize == MaxCopyThreads + 1

BatchFile(i) == OriginalInputDir \o << <<"f" \o ToString(i), ".wav">> >>

StagingInit ==
    /\ entry = "cli"
    /\ use_cache = TRUE
    /\ cache_dir = OriginalInputDir
    /\ thread_count = 1
    /\ \E n \in 1..BatchSize :
         /\ fs = [p \in {BatchFile(i) : i \in 1..n} |-> 1]
         /\ wav_files = [i \in 1..n |-> BatchFile(i)]
    /\ dirs = {ParentDir, OriginalInputDir, OutputDir}
    /\ pc = "staging"
    /\ exc = "none"
    /\ is_converting = FALSE
    /\ input_dir = OriginalInputDir
    /\ copy = AllQueued(wav_files, "queued")
    /\ cached_files = <<>>
    /\ failed_copies = <<>>
    /\ job = <<>>
    /\ summary = NoSummary
    /\ hist = [NoHist EXCEPT !.discovered = wav_files, !.scanned = TRUE,
                             !.space_checked = TRUE]

StagingNext ==
    \/ \E p \in AllPaths : CliCopyStart(p)
    \/ \E p \in AllPaths : CliCopyFinish(p)
    \/ CliStagingDone

StagingSpec == StagingInit /\ [][StagingNext]_vars

\* C18: during staging of N files, the number of copy operations running at
\* the same time never exceeds min(8, N).
C18_CopyPoolBounded ==
    /\ Cardinality(Copying) <= 8
    /\ Cardinality(Copying) <= Cardinality(DOMAIN copy)

C18_Witness ==
    /\ Cardinality(DOMAIN copy) > 8
    /\ Cardinality(Copying) = 8
    /\ \E p \in DOMAIN copy : copy[p] = "queued"

\* A conversion job has been taken by a thread of the conversion pool
ConversionStarted == \E p \in DOMAIN job : job[p].st # "queued"

\* C19: the copy pool and the conversion pool are never active at the same
\* time: no conversion job starts until every copy task of the staging phase
\* has finished, succeeded or failed.
C19_PoolsInSequence ==
    /\ ConversionStarted => \A q \in DOMAIN copy : copy[q] = "done"
    /\ PoolAlive => Copying = {}

C19_Witness ==
    /\ entry = "cli" /\ use_cache
    /\ Cardinality(DOMAIN copy) > 1
    /\ failed_copies # <<>>
    /\ Running # {}

\* C20: the scanner returns every file anywhere under the root whose
\* extension is ".wav" in any mix of upper and lower case, and no file with
\* another extension.
C20_ScannerCaseInsensitive ==
    hist.scanned =>
        Range(hist.discovered)
            = {p \in DOMAIN fs : /\ IsUnder(p, OriginalInputDir)
                                 /\ LowerSuffix(p[Len(p)][2]) = ".wav"}

----------------------------------------------------------------------------
(* The scanner run twice on an unchanged tree, as the GUI does             *)
(* (start_conversion, then conversion_worker), on either platform and in   *)
(* every order the two traversals can yield the files                      *)

\* Two names a platform that ignores case cannot keep apart
SameFolded(p, q) ==
    /\ Parent(p) = Parent(q) /\ Stem(p) = Stem(q)
    /\ LowerSuffix(p[Len(p)][2]) = LowerSuffix(q[Len(q)][2])

RescanInit ==
    /\ entry = "gui"
    /\ use_cache = FALSE
    /\ cache_dir = <<>>
    /\ thread_count = 1
    /\ \E S \in SUBSET {SourcePath(i) : i \in 1..Len(Candidates)} :
         /\ Cardinality(S) <= MaxFiles + 1
         /\ fs = TreeOf(S)
    /\ dirs = {ParentDir, OriginalInputDir}
    /\ pc = "start"
    /\ exc = "none"
    /\ is_converting = FALSE
    /\ wav_files = <<>>
    /\ input_dir = OriginalInputDir
    /\ copy = <<>>
    /\ cached_files = <<>>
    /\ failed_copies = <<>>
    /\ job = <<>>
    /\ summary = NoSummary
    /\ \E fold \in BOOLEAN :
         /\ fold => \A p, q \in DOMAIN fs : SameFolded(p, q) => p = q
         /\ hist = [NoHist EXCEPT !.fold_case = fold]

\* One run of find_wav_files: the two traversals yield their files in some
\* order, the lists are joined, then sorted(set(...))
ScanResult(l1, l2) == SortedSet(l1 \o l2)

\* The first scan (start_conversion)
RescanFirst ==
    /\ pc = "start"
    /\ \E l1 \in Enumerations(Rglob(input_dir, ".wav", hist.fold_case)),
          l2 \in Enumerations(Rglob(input_dir, ".WAV", hist.fold_case)) :
         hist' = [hist EXCEPT !.discovered = ScanResult(l1, l2), !.scanned = TRUE]
    /\ pc' = "w_setup"
    /\ UNCHANGED <<entry, use_cache, cache_dir, thread_count, fs, dirs, exc,
                   is_converting, wav_files, input_dir, copy, cached_files,
                   failed_copies, job, summary>>

\* The second scan (conversion_worker), the tree unchanged
RescanSecond ==
    /\ pc = "w_setup"
    /\ \E l1 \in Enumerations(Rglob(input_dir, ".wav", hist.fold_case)),
          l2 \in Enumerations(Rglob(input_dir, ".WAV", hist.fold_case)) :
         wav_files' = ScanResult(l1, l2)
    /\ pc' = "rescanned"
    /\ UNCHANGED <<entry, use_cache, cache_dir, thread_count, fs, dirs, exc,
                   is_converting, input_dir, copy, cached_files,
                   failed_copies, job, summary, hist>>

RescanNext ==
    \/ RescanFirst
    \/ RescanSecond

RescanSpec == RescanInit /\ [][RescanNext]_vars

\* The place of a path in the sort order
PathIndex(p) == CHOOSE i \in 1..Len(Candidates) : SourcePath(i) = p

\* A list of paths is in strictly ascending order
StrictlySorted(l) ==
    \A i, j \in 1..Len(l) : i < j => PathIndex(l[i]) < PathIndex(l[j])

\* C21: the scanner's result is sorted and holds no path twice, also when a
\* file matches more than one of the scanner's patterns, and two runs of the
\* scanner on an unchanged tree return identical ordered results.
C21_ScanSortedUniqueStable ==
    /\ hist.scanned => StrictlySorted(hist.discovered)
    /\ pc = "rescanned" =>
          /\ StrictlySorted(wav_files)
          /\ wav_files = hist.discovered

C21_Witness ==
    /\ pc = "rescanned"
    /\ hist.fold_case
    /\ Len(wav_files) > 1
    /\ \E p \in DOMAIN fs : /\ p \in Rglob(input_dir, ".wav", hist.fold_case)
                            /\ p \in Rglob(input_dir, ".WAV", hist.fold_case)

----------------------------------------------------------------------------
(* The scan of a root that is removed after the input was validated        *)
(* (get_input_directory; validate_inputs) and before the scan              *)

\* Someone else removes the input directory: on the command line between the
\* prompt and the scan, in the GUI between Start and the worker's scan
RootRemoved ==
    /\ \/ entry = "cli" /\ pc \in {"start", "scan"}
       \/ entry = "gui" /\ pc = "w_setup"
    /\ DirExists(OriginalInputDir)
    /\ fs' = RmtreeFiles(fs, OriginalInputDir)
    /\ dirs' = RmtreeDirs(dirs, OriginalInputDir)
    /\ UNCHANGED <<entry, use_cache, cache_dir, thread_count, pc, exc,
                   is_converting, wav_files, input_dir, copy, cached_files,
                   failed_copies, job, summary, hist>>

RootNext ==
    \/ CliPrologue
    \/ CliScan
    \/ GuiStart
    \/ GuiWorkerSetup
    \/ RootRemoved

RootSpec == ScanInit /\ [][RootNext]_vars

\* The scan of the run has been made on a root that does not exist
ScannedMissingRoot ==
    /\ ~DirExists(OriginalInputDir)
    /\ \/ entry = "cli" /\ hist.scanned
       \/ entry = "gui" /\ pc \notin {"start", "w_setup"}

\* C22: the scanner fails with a NotADirectory error when its root does not
\* exist (removed between input validation and the scan); it does not return
\* an empty result for such a root.
C22_MissingRootFails ==
    ScannedMissingRoot => exc = "NotADirectoryError"

-----------------------------------------------------------------------------
(* The log and progress queues of the GUI *)

MaxEvents == 4

\* queue.Queue() is made without a maxsize: 0, no upper limit
QueueMaxSize == 0

\* Queue.put blocks while the queue is full
QueueFull_SizeOne(q) == Len(q) >= 1
QueueFull(q) == QueueMaxSize > 0 /\ Len(q) >= QueueMaxSize

\* The queues, what was put on them and what the UI thread has shown
QueueHist ==
    NoHist @@
    [log_queue |-> <<>>,       \* self.log_queue
     progress_queue |-> <<>>,  \* self.progress_queue
     published |-> <<>>,       \* the events put, in the order of the puts
     delivered |-> <<>>,       \* the events shown by the UI thread, in order
     ui |-> "log"]             \* where process_queues stands

QueueInit ==
    /\ entry = "gui"
    /\ use_cache = FALSE
    /\ cache_dir = <<>>
    /\ thread_count = MaxWorkers
    /\ fs = SourceTree(MaxFiles)
    /\ dirs = {ParentDir, OriginalInputDir}
    /\ pc = "collect"
    /\ exc = "none"
    /\ is_converting = TRUE
    /\ wav_files = <<>>
    /\ input_dir = OriginalInputDir
    /\ copy = <<>>
    /\ cached_files = <<>>
    /\ failed_copies = <<>>
    /\ job = <<>>
    /\ summary = NoSummary
    /\ hist = QueueHist

\* The event a thread publishes: its kind, its publisher, its serial number
Event(kind, thread) ==
    [kind |-> kind, by |-> thread, n |-> Len(hist.published) + 1]

\* log_message on thread t: self.log_queue.put(formatted_message)
log_message(t) ==
    /\ Len(hist.published) < MaxEvents
    /\ ~QueueFull(hist.log_queue)
    /\ hist' = [hist EXCEPT
                  !.log_queue = Append(@, Event("log", t)),
                  !.published = Append(@, Event("log", t))]
    /\ UNCHANGED <<entry, use_cache, cache_dir, thread_count, fs, dirs, pc, exc,
                   is_converting, wav_files, input_dir, copy, cached_files,
                   failed_copies, job, summary>>

\* update_progress on thread t: self.progress_queue.put(progress_info)
update_progress(t) ==
    /\ Len(hist.published) < MaxEvents
    /\ ~QueueFull(hist.progress_queue)
    /\ hist' = [hist EXCEPT
                  !.progress_queue = Append(@, Event("progress", t)),
                  !.published = Append(@, Event("progress", t))]
    /\ UNCHANGED <<entry, use_cache, cache_dir, thread_count, fs, dirs, pc, exc,
                   is_converting, wav_files, input_dir, copy, cached_files,
                   failed_copies, job, summary>>

\* process_queues, first loop: get_nowait on the log queue and insert the
\* message in the log widget; queue.Empty ends the loop
ProcessLogQueue ==
    /\ hist.ui = "log"
    /\ IF hist.log_queue # <<>>
       THEN hist' = [hist EXCEPT !.log_queue = Tail(@),
                                 !.delivered = Append(@, Head(hist.log_queue))]
       ELSE hist' = [hist EXCEPT !.ui = "progress"]
    /\ UNCHANGED <<entry, use_cache, cache_dir, thread_count, fs, dirs, pc, exc,
                   is_converting, wav_files, input_dir, copy, cached_files,
                   failed_copies, job, summary>>

\* process_queues, second loop: get_nowait on the progress queue and set the
\* progress bar and the status; queue.Empty ends the loop and the next call is
\* scheduled (root.after)
ProcessProgressQueue ==
    /\ hist.ui = "progress"
    /\ IF hist.progress_queue # <<>>
       THEN hist' = [hist EXCEPT !.progress_queue = Tail(@),
                                 !.delivered = Append(@, Head(hist.progress_queue))]
       ELSE hist' = [hist EXCEPT !.ui = "log"]
    /\ UNCHANGED <<entry, use_cache, cache_dir, thread_count, fs, dirs, pc, exc,
                   is_converting, wav_files, input_dir, copy, cached_files,
                   failed_copies, job, summary>>

QueueNext ==
    \/ \E t \in 1..MaxWorkers : log_message(t)
    \/ \E t \in 1..MaxWorkers : update_progress(t)
    \/ ProcessLogQueue
    \/ ProcessProgressQueue

\* The Tk main loop runs the scheduled process_queues, whose get_nowait calls
\* never wait
QueueSpec ==
    /\ QueueInit
    /\ [][QueueNext]_vars
    /\ WF_vars(ProcessLogQueue)
    /\ WF_vars(ProcessProgressQueue)

\* The events of one kind in a sequence of events, in order
OfKind(events, kind) == SelectSeq(events, LAMBDA e : e.kind = kind)

IsPrefix(s, t) == Len(s) <= Len(t) /\ \A i \in 1..Len(s) : s[i] = t[i]

\* A put is possible whatever the queues hold and wherever the consumer stands
PutNeverBlocks ==
    Len(hist.published) < MaxEvents =>
        \A t \in 1..MaxWorkers :
            (ENABLED log_message(t)) /\ (ENABLED update_progress(t))

NoneLostNoneDuplicated ==
    /\ \A i, j \in 1..Len(hist.delivered) :
          hist.delivered[i] = hist.delivered[j] => i = j
    /\ Range(hist.published) =
          Range(hist.delivered) \cup Range(hist.log_queue)
                                \cup Range(hist.progress_queue)

\* C23, as stated: publishing never blocks, and the events are delivered to
\* the consumer in the order in which they were published, whatever their
\* kind, none lost, none duplicated.
C23_DeliveredInPublishedOrder ==
    /\ PutNeverBlocks
    /\ NoneLostNoneDuplicated
    /\ \A i, j \in 1..Len(hist.delivered) :
          i < j => hist.delivered[i].n < hist.delivered[j].n

\* C23, amended: publishing a progress or log event never blocks the producer;
\* every published event is eventually delivered exactly once; log events are
\* delivered in the order of their publication and so are progress events,
\* while a log event can be delivered before a progress event published
\* earlier.
C23_DeliveredInOrderPerQueue ==
    /\ [](/\ PutNeverBlocks
          /\ NoneLostNoneDuplicated
          /\ IsPrefix(OfKind(hist.delivered, "log"),
                      OfKind(hist.published, "log"))
          /\ IsPrefix(OfKind(hist.delivered, "progress"),
                      OfKind(hist.published, "progress")))
    /\ \A n \in 1..MaxEvents :
          (Len(hist.published) >= n)
             ~> (\E i \in 1..Len(hist.delivered) : hist.delivered[i].n = n)

\* Events of both kinds and of two threads were delivered after they had
\* waited in their queues together
C23_Witness ==
    /\ Len(hist.delivered) >= 3
    /\ \E i, j \in 1..Len(hist.delivered) :
          /\ hist.delivered[i].kind = "log"
          /\ hist.delivered[j].kind = "progress"
          /\ hist.delivered[i].by # hist.delivered[j].by
    /\ hist.delivered[1].n > 1

-----------------------------------------------------------------------------
(* The run summary and its writer *)

\* A step of a worker: a job of the pool starts or finishes
WorkerStep ==
    /\ DOMAIN job' = DOMAIN job
    /\ \E p \in DOMAIN job : job'[p].st # job[p].st

\* A step of the coordinating thread that takes one result from the
\* completion iterator
CoordinatorRecords ==
    /\ pc = "collect"
    /\ DOMAIN job' = DOMAIN job
    /\ \E p \in DOMAIN job :
          /\ job[p].st = "finished" /\ job[p].rec = 0 /\ job'[p].rec > 0
          /\ \A q \in DOMAIN job \ {p} : job'[q] = job[q]

\* C24: the run summary has a single writer: the counters and lists change
\* only in a recording step of the coordinating thread, never in a step of a
\* worker; under every interleaving no update is lost: the counters add up to
\* the number of results delivered, during the run and at its end.
C24_SingleWriter ==
    /\ [][/\ WorkerStep => summary' = summary
          /\ summary' # summary => CoordinatorRecords]_vars
    /\ [](/\ summary.successful_conversions =
                Cardinality({p \in Recorded : job[p].res.success})
          /\ summary.failed_conversions =
                Cardinality({p \in Recorded : ~job[p].res.success})
          /\ entry = "cli" =>
                /\ Len(summary.converted_files) = summary.successful_conversions
                /\ Len(summary.failed_files) = summary.failed_conversions)

\* A pool of two workers ran the transcoder on two files, one job succeeded
\* and one failed, both results were delivered and the run reached its summary
C24_Witness ==
    /\ hist.summary_done
    /\ thread_count = 2
    /\ Cardinality(Recorded) = 2
    /\ summary.successful_conversions = 1
    /\ summary.failed_conversions = 1
    /\ \A p \in Recorded : job[p].ran

-----------------------------------------------------------------------------
(* A run in which everything succeeds *)

\* The destination of a discovered source file: the destination root next to
\* the input directory, the relative directory of the file, its stem + ".flac"
ExpectedDestination(src) ==
    create_output_directory(OriginalInputDir)
        \o Parent(RelativeTo(src, OriginalInputDir))
        \o << <<Stem(src), ".flac">> >>

\* A staged run that was not stopped reached its summary: every discovered
\* file was copied, and for every one of them the transcoder was run, wrote
\* its output and exited with code 0
AllSucceeded ==
    /\ use_cache
    /\ hist.summary_done
    /\ ~hist.stopped
    /\ Len(hist.discovered) > 0
    /\ Len(cached_files) = Len(hist.discovered)
    /\ \A i \in 1..Len(hist.discovered) :
          LET staged == JobKey(hist.discovered[i])
          IN /\ staged \in DOMAIN job
             /\ job[staged].ran
             /\ ~job[staged].oc.timeout
             /\ job[staged].oc.returncode = 0
             /\ job[staged].oc.wrote

\* C25: end to end, when every copy and every transcoder invocation succeeds
\* on the N discovered files of a staged run, the summary reports N
\* successful and 0 failed out of N, and when the run is over the destination
\* root <input-directory-name>_converted next to the input directory holds,
\* for every source file at relative path p, the file p with the extension
\* .flac.
C25_EndToEnd ==
    (pc = "done" /\ AllSucceeded) =>
        /\ Len(wav_files) = Len(hist.discovered)
        /\ summary.successful_conversions = Len(hist.discovered)
        /\ summary.failed_conversions = 0
        /\ \A i \in 1..Len(hist.discovered) :
              Exists(ExpectedDestination(hist.discovered[i]))

-----------------------------------------------------------------------------
(* The conversion pool on its own, with its scheduling *)

\* The files of a run: the first n candidates, the second and the third in
\* the same subdirectory. A run has one file more than its pool has workers,
\* so that a job has to wait for a worker.
PoolFiles(n) == {SourcePath(i) : i \in 1..n}

\* The state in which main submits the jobs: an unstaged run that has scanned
\* its tree and made its destination root
PoolInit ==
    /\ entry = "cli"
    /\ use_cache = FALSE
    /\ cache_dir = <<>>
    /\ thread_count \in 1..MaxWorkers
    /\ fs = TreeOf(PoolFiles(thread_count + 1))
    /\ dirs = {ParentDir, OriginalInputDir, OutputDir}
    /\ pc = "submit"
    /\ exc = "none"
    /\ is_converting = FALSE
    /\ wav_files = find_wav_files(OriginalInputDir)
    /\ input_dir = OriginalInputDir
    /\ copy = <<>>
    /\ cached_files = <<>>
    /\ failed_copies = <<>>
    /\ job = <<>>
    /\ summary = NoSummary
    /\ hist = [NoHist EXCEPT !.discovered = find_wav_files(OriginalInputDir),
                             !.scanned = TRUE]

PoolNext ==
    \/ CliSubmit
    \/ \E p \in AllPaths : JobStart(p)
    \/ \E p \in AllPaths : JobFinish(p)
    \/ \E p \in AllPaths : CliRecord(p)
    \/ LoopEnd
    \/ DrainDone
    \/ CliSummary
    \/ CliFinally

\* Whenever a step of the pool or of the coordinating thread is possible, one
\* is taken: a free pool thread takes the next queued job, a transcoder exits
\* or is cut off by the timeout of subprocess.run, the coordinating thread
\* goes on
PoolSpec ==
    /\ PoolInit
    /\ [][PoolNext]_vars
    /\ WF_vars(PoolNext)

\* C26: a hung transcoder cannot stall the pool: once the jobs are
\* dispatched the run eventually reaches its summary, and it does so only
\* when every dispatched job has yielded its result and the result was
\* taken; a worker whose transcoder has ended or was cut off is free for the
\* next queued job.
C26_PoolNeverStalls ==
    /\ (pc = "collect") ~> hist.summary_done
    /\ [](hist.summary_done =>
             \A p \in DOMAIN job : job[p].st = "finished" /\ job[p].rec = 1)
    /\ [](\A p \in DOMAIN job :
             (/\ pc \in {"collect", "drain"}
              /\ NextQueuedJob(p)
              /\ Cardinality({q \in DOMAIN job : job[q].st = "running"})
                    < thread_count)
                => ENABLED JobStart(p))

\* A job that had to wait for a worker has run after a transcoder that was
\* cut off by its timeout, and the run reached its summary
C26_Witness ==
    /\ hist.summary_done
    /\ Cardinality(DOMAIN job) > thread_count
    /\ \E p, q \in DOMAIN job :
          /\ job[p].ran /\ job[p].oc.timeout
          /\ job[q].ran /\ ~job[q].oc.timeout
          /\ PathIndex(p) < PathIndex(q)

-----------------------------------------------------------------------------
(* The failure list *)

\* The failed jobs whose result the coordinator has taken
FailedJobs == {p \in Recorded : ~job[p].res.success}

\* The entry of the failure list for a failed job (line 820)
FailureEntry(p) == <<RelativeTo(p, input_dir), job[p].res.message>>

\* C27: when the run reaches its summary the failure list holds exactly one
\* (relative path, message) entry for every failed job, its length is the
\* failed counter, and the list is part of what the final summary reports.
C27_FailureListReported ==
    hist.summary_done =>
        /\ Len(summary.failed_files) = summary.failed_conversions
        /\ \A p \in FailedJobs :
              Cardinality({i \in 1..Len(summary.failed_files) :
                              summary.failed_files[i] = FailureEntry(p)}) = 1
        /\ summary.failed_conversions > 0 =>
              "failed_files" \in DOMAIN SummaryReport

-----------------------------------------------------------------------------
(* A cleanup that fails *)

\* The step in which rmtree of the staging directory raises
RmtreeFails == ~hist.rmtree_failed /\ hist'.rmtree_failed

\* C28: a failure to remove the staging directory is never escalated: the
\* cleanup returns normally, no error is raised, the run goes on as after a
\* successful removal (the command line ends, the GUI schedules
\* conversion_finished), and the summary and the results are what they were.
C28_CleanupFailureNotEscalated ==
    /\ [][RmtreeFails =>
            /\ exc' = exc
            /\ summary' = summary
            /\ job' = job
            /\ hist'.summary_done = hist.summary_done
            /\ hist'.completed_msg = hist.completed_msg
            /\ pc' = (IF entry = "cli" THEN "done" ELSE "ui_finish")]_vars
    /\ []((hist.rmtree_failed /\ entry = "gui" /\ pc = "done") => hist.ui_reset)

\* A run that reached its summary without an error ended after the removal
\* of its staging directory had failed
C28_Witness ==
    /\ hist.rmtree_failed
    /\ hist.summary_done
    /\ exc = "none"
    /\ pc = "done"
    /\ DirExists(cache_dir)

-----------------------------------------------------------------------------
(* The order in which as_completed hands the results to the coordinator *)

\* The completions and what as_completed does with them
CollectHist ==
    NoHist @@
    [finish_order |-> <<>>,    \* the jobs in the order in which they returned
     collecting |-> FALSE,     \* as_completed has taken its snapshot
     snapshot |-> {},          \* the futures that had finished at the snapshot
     initial |-> {},           \* those of the snapshot not yet yielded
     waiter |-> <<>>,          \* waiter.finished_futures
     record_order |-> <<>>]    \* the jobs in the order in which they were recorded

CollectInit ==
    /\ entry = "cli"
    /\ use_cache = FALSE
    /\ cache_dir = <<>>
    /\ thread_count \in 1..MaxWorkers
    /\ \E n \in 1..MaxFiles : fs = TreeOf(PoolFiles(n))
    /\ dirs = {ParentDir, OriginalInputDir, OutputDir}
    /\ pc = "submit"
    /\ exc = "none"
    /\ is_converting = FALSE
    /\ wav_files = find_wav_files(OriginalInputDir)
    /\ input_dir = OriginalInputDir
    /\ copy = <<>>
    /\ cached_files = <<>>
    /\ failed_copies = <<>>
    /\ job = <<>>
    /\ summary = NoSummary
    /\ hist = [CollectHist EXCEPT !.discovered = find_wav_files(OriginalInputDir),
                             !.scanned = TRUE]

\* Future.set_result: the future is finished and every installed waiter is
\* told (add_result appends it to finished_futures)
NoteFinished(h, p) ==
    [h EXCEPT !.finish_order = Append(@, p),
              !.waiter = IF h.collecting THEN Append(@, p) ELSE @]

\* JobStart, with the completion noted when the job returns before the launch
FutureStart(p) ==
    /\ PoolAlive
    /\ NextQueuedJob(p)
    /\ PoolHasFreeWorker
    /\ \E permitted \in BOOLEAN :
         IF MkdirParents(Parent(OutputFilePath(p, input_dir, OutputDir)),
                         TRUE, permitted)
         THEN /\ dirs' = dirs \cup {Parent(OutputFilePath(p, input_dir, OutputDir))}
              /\ IF Exists(p)
                 THEN /\ job' = [job EXCEPT ![p].st = "running", ![p].ran = TRUE,
                                            ![p].res.input_size = fs[p]]
                      /\ hist' = hist
                 ELSE /\ job' = [job EXCEPT ![p].st = "finished",
                                            ![p].res = UnexpectedError(0)]
                      /\ hist' = NoteFinished(hist, p)
         ELSE /\ job' = [job EXCEPT ![p].st = "finished",
                                    ![p].res = UnexpectedError(0)]
              /\ hist' = NoteFinished(hist, p)
              /\ UNCHANGED dirs
    /\ UNCHANGED <<entry, use_cache, cache_dir, thread_count, fs, pc, exc,
                   is_converting, wav_files, input_dir, copy, cached_files,
                   failed_copies, summary>>

\* JobFinish, with the completion noted
FutureDone(p) ==
    /\ p \in Running
    /\ \E oc \in Outcomes :
         LET output_file_path == OutputFilePath(p, input_dir, OutputDir)
             fs1 == IF oc.wrote THEN Put(fs, output_file_path, 1) ELSE fs
             dest_exists == output_file_path \in DOMAIN fs1
             dest_size == IF dest_exists THEN fs1[output_file_path] ELSE 0
         IN /\ fs' = fs1
            /\ job' = [job EXCEPT
                         ![p].st = "finished", ![p].oc = oc,
                         ![p].dest_seen = dest_exists,
                         ![p].res = ConvertResult(oc, dest_exists, dest_size,
                                                  job[p].res.input_size)]
    /\ hist' = NoteFinished(hist, p)
    /\ UNCHANGED <<entry, use_cache, cache_dir, thread_count, dirs, pc, exc,
                   is_converting, wav_files, input_dir, copy, cached_files,
                   failed_copies, summary>>

\* as_completed is entered: under the futures' locks it takes the set of the
\* futures that have finished and installs its waiter on all of them
AsCompletedStart ==
    /\ pc = "collect" /\ ~hist.collecting
    /\ hist' = [hist EXCEPT !.collecting = TRUE,
                            !.snapshot = Finished, !.initial = Finished]
    /\ UNCHANGED <<entry, use_cache, cache_dir, thread_count, fs, dirs, pc, exc,
                   is_converting, wav_files, input_dir, copy, cached_files,
                   failed_copies, job, summary>>

\* The coordinator's pass of the loop body for the yielded future (lines
\* 805-822)
RecordYielded(p, h) ==
    /\ job' = [job EXCEPT ![p].rec = @ + 1]
    /\ summary' = RecordResult(summary, job[p].res, RelativeTo(p, input_dir), TRUE)
    /\ hist' = [h EXCEPT !.record_order = Append(@, p)]
    /\ UNCHANGED <<entry, use_cache, cache_dir, thread_count, fs, dirs, pc, exc,
                   is_converting, wav_files, input_dir, copy, cached_files,
                   failed_copies>>

\* The futures of the snapshot are yielded first, in the order of a list
\* made from a set
YieldInitial(p) ==
    /\ pc = "collect" /\ hist.collecting
    /\ p \in hist.initial
    /\ RecordYielded(p, [hist EXCEPT !.initial = @ \ {p}])

\* Which of the waiter's futures is yielded next: the list is reversed and
\* taken from its end
WaiterNext_Last(w) == w[Len(w)]
WaiterNext(w) == Head(w)

\* Then the futures the waiter was told of, as they finish
YieldFinished ==
    /\ pc = "collect" /\ hist.collecting
    /\ hist.initial = {}
    /\ hist.waiter # <<>>
    /\ LET p == WaiterNext(hist.waiter)
       IN RecordYielded(p, [hist EXCEPT
                               !.waiter = SelectSeq(@, LAMBDA q : q # p)])

CollectNext ==
    \/ CliSubmit
    \/ \E p \in AllPaths : FutureStart(p)
    \/ \E p \in AllPaths : FutureDone(p)
    \/ AsCompletedStart
    \/ \E p \in AllPaths : YieldInitial(p)
    \/ YieldFinished
    \/ LoopEnd
    \/ DrainDone
    \/ CliSummary

CollectSpec == CollectInit /\ [][CollectNext]_vars

\* The position of a job in a sequence of jobs
PositionIn(order, p) == CHOOSE i \in 1..Len(order) : order[i] = p

\* p and q are in this order in the sequence
Before(order, p, q) ==
    /\ p \in Range(order) /\ q \in Range(order)
    /\ PositionIn(order, p) < PositionIn(order, q)

\* A job that has returned and was not recorded is recorded next, or a job
\* that returned before it is: no job that is queued or running is waited for
NoWaitingForRunning ==
    (pc = "collect" /\ hist.collecting /\ \E p \in DOMAIN job : Yielded(p)) =>
        \/ \E p \in DOMAIN job : Yielded(p) /\ ENABLED YieldInitial(p)
        \/ ENABLED YieldFinished

\* C29, as stated: the results are recorded in the order in which the jobs
\* completed, and a completed job is recorded without waiting for a job
\* submitted earlier that is still running.
C29_RecordedInCompletionOrder ==
    /\ NoWaitingForRunning
    /\ \A p, q \in Range(hist.record_order) :
          Before(hist.finish_order, p, q) => Before(hist.record_order, p, q)

\* C29, amended: the results are recorded in an order that does not depend on
\* the order of submission, and a completed job is recorded without waiting
\* for a job submitted earlier that is still running. Jobs that complete after
\* the collecting loop has started are recorded in the order of their
\* completion; jobs that had completed before it started are recorded first,
\* in an arbitrary order among themselves.
C29_RecordedAsCompleted ==
    /\ NoWaitingForRunning
    /\ \A p, q \in Range(hist.record_order) :
          (Before(hist.finish_order, p, q) /\ q \notin hist.snapshot)
             => Before(hist.record_order, p, q)
    /\ \A p \in hist.snapshot, q \in Range(hist.record_order) \ hist.snapshot :
          Before(hist.record_order, p, q)

\* Two jobs ran side by side; the one submitted second completed first, after
\* the loop had started, and was recorded while the first was still running
C29_Witness ==
    /\ Len(wav_files) >= 2
    /\ hist.snapshot = {}
    /\ hist.record_order = <<wav_files[2]>>
    /\ job[wav_files[1]].st = "running"

-----------------------------------------------------------------------------
(* Two jobs with the same destination directory *)

\* The directory a job makes before it launches the transcoder (line 276)
DestinationDir(p) == Parent(OutputFilePath(p, input_dir, OutputDir))

\* A pool thread is free to take p, whose source file is there
ReadyToStart(p) ==
    /\ pc \in {"collect", "drain"}
    /\ NextQueuedJob(p)
    /\ Cardinality({q \in DOMAIN job : job[q].st = "running"}) < thread_count
    /\ p \in DOMAIN fs

\* C30: creating the destination directories is idempotent under
\* concurrency: a job whose destination directory exists already, made by
\* another worker or present before the run, goes on to launch the transcoder
\* just as a job whose directory does not exist yet; the directory a job has
\* made stays.
C30_MkdirIdempotent ==
    /\ \A p \in DOMAIN job :
          ReadyToStart(p) => ENABLED (JobStart(p) /\ job'[p].st = "running")
    /\ \A p \in DOMAIN job : job[p].ran => DestinationDir(p) \in dirs

\* Two workers run the transcoder at the same time on two files whose
\* destination directory is the same and did not exist when the run began
C30_Witness ==
    \E p, q \in DOMAIN job :
        /\ p # q
        /\ DestinationDir(p) = DestinationDir(q)
        /\ DestinationDir(p) # OutputDir
        /\ job[p].st = "running" /\ job[q].st = "running"

-----------------------------------------------------------------------------
(* The GUI after a run *)

\* The application is idle: the flag is false, Start is enabled and Stop is
\* disabled. start_conversion disables Start and enables Stop (lines 937-939);
\* only conversion_finished enables Start again (lines 904-908).
GuiIdle ==
    /\ ~is_converting
    /\ hist.started => hist.ui_reset

\* The worker thread of a started run has ended
WorkerEnded == entry = "gui" /\ hist.started /\ pc = "done"

\* C31: in the GUI every run that was started returns the application to
\* idle, whichever way its worker thread ends: normal completion, no file
\* found at the worker's own scan, a stop during staging or conversion, an
\* exception at any step.
C31_GuiReturnsToIdle ==
    WorkerEnded => GuiIdle

-----------------------------------------------------------------------------
(* Start and Stop clicked again and again *)

MaxRuns == 4

\* The buttons, the worker threads started so far (each with the place it
\* has reached) and the conversion_finished calls waiting in the event loop
ClickHist ==
    NoHist @@
    [start_btn |-> "normal",   \* line 314
     stop_btn |-> "disabled",  \* line 317
     threads |-> <<>>,         \* one entry per conversion_worker thread started
     after |-> 0]              \* root.after(0, self.conversion_finished) pending

ClickInit ==
    /\ entry = "gui"
    /\ use_cache \in BOOLEAN
    /\ cache_dir = (IF use_cache THEN ParentDir \o << <<"cache", "">> >> ELSE <<>>)
    /\ thread_count = 1
    /\ fs = SourceTree(MaxFiles)
    /\ dirs = {ParentDir, OriginalInputDir}
    /\ pc = "start"
    /\ exc = "none"
    /\ is_converting = FALSE
    /\ wav_files = <<>>
    /\ input_dir = OriginalInputDir
    /\ copy = <<>>
    /\ cached_files = <<>>
    /\ failed_copies = <<>>
    /\ job = <<>>
    /\ summary = NoSummary
    /\ hist = ClickHist

\* The worker threads that have not ended
Alive == {i \in 1..Len(hist.threads) : hist.threads[i] \notin {"ended", "died"}}

\* A click on Start. A disabled button does not call its command. The
\* handler runs on the UI thread: validate_inputs, the scan, the modal
\* confirmation; when confirmed it sets the flag, disables Start, enables
\* Stop and starts a worker thread (lines 910-947).
start_conversion ==
    /\ hist.start_btn = "normal"
    /\ Len(hist.threads) < MaxRuns
    /\ find_wav_files(OriginalInputDir) # <<>>
    /\ \E confirm \in BOOLEAN :
         IF confirm
         THEN /\ is_converting' = TRUE
              /\ hist' = [hist EXCEPT !.start_btn = "disabled",
                                      !.stop_btn = "normal",
                                      !.threads = Append(@, "setup")]
         ELSE UNCHANGED <<is_converting, hist>>
    /\ UNCHANGED <<entry, use_cache, cache_dir, thread_count, fs, dirs, pc, exc,
                   wav_files, input_dir, copy, cached_files, failed_copies,
                   job, summary>>

\* A Stop handler that gives Start back at once
stop_conversion_EnablesStart ==
    /\ hist.stop_btn = "normal"
    /\ IF is_converting
       THEN /\ is_converting' = FALSE
            /\ hist' = [hist EXCEPT !.stop_btn = "disabled",
                                    !.start_btn = "normal",
                                    !.stopped = TRUE]
       ELSE UNCHANGED <<is_converting, hist>>
    /\ UNCHANGED <<entry, use_cache, cache_dir, thread_count, fs, dirs, pc, exc,
                   wav_files, input_dir, copy, cached_files, failed_copies,
                   job, summary>>

\* A click on Stop (lines 949-954): the flag is cleared and Stop is disabled;
\* Start is left as it is
stop_conversion ==
    /\ hist.stop_btn = "normal"
    /\ IF is_converting
       THEN /\ is_converting' = FALSE
            /\ hist' = [hist EXCEPT !.stop_btn = "disabled", !.stopped = TRUE]
       ELSE UNCHANGED <<is_converting, hist>>
    /\ UNCHANGED <<entry, use_cache, cache_dir, thread_count, fs, dirs, pc, exc,
                   wav_files, input_dir, copy, cached_files, failed_copies,
                   job, summary>>

\* Where a worker thread goes next (conversion_worker, lines 805-902). From
\* the setup it ends without scheduling conversion_finished when no file is
\* found or an exception is caught before cache_dir_path is bound; staging is
\* left for the finally clause when the flag is false; the with block drains
\* the pool; the finally clause cleans up, schedules conversion_finished and
\* the thread ends.
WorkerMoves(place, flag, staging) ==
    CASE place = "setup" ->
            {"died"} \cup (IF staging THEN {"staging"} ELSE {"convert"})
      [] place = "staging" -> IF flag THEN {"convert", "finally"} ELSE {"finally"}
      [] place = "convert" -> {"drain"}
      [] place = "drain" -> {"finally"}
      [] place = "finally" -> {"ended"}
      [] OTHER -> {}

WorkerStepOf(i) ==
    /\ i \in Alive
    /\ \E next \in WorkerMoves(hist.threads[i], is_converting, use_cache) :
         hist' = [hist EXCEPT !.threads[i] = next,
                              !.after = IF next = "ended" THEN @ + 1 ELSE @]
    /\ UNCHANGED <<entry, use_cache, cache_dir, thread_count, fs, dirs, pc, exc,
                   is_converting, wav_files, input_dir, copy, cached_files,
                   failed_copies, job, summary>>

\* conversion_finished, run by the event loop (lines 904-908)
conversion_finished ==
    /\ hist.after > 0
    /\ is_converting' = FALSE
    /\ hist' = [hist EXCEPT !.after = @ - 1,
                            !.start_btn = "normal",
                            !.stop_btn = "disabled"]
    /\ UNCHANGED <<entry, use_cache, cache_dir, thread_count, fs, dirs, pc, exc,
                   wav_files, input_dir, copy, cached_files, failed_copies,
                   job, summary>>

ClickNext ==
    \/ start_conversion
    \/ stop_conversion
    \/ \E i \in 1..MaxRuns : WorkerStepOf(i)
    \/ conversion_finished

ClickSpec == ClickInit /\ [][ClickNext]_vars

\* C32: in the GUI, for every sequence of Start and Stop clicks, at most one
\* conversion worker thread is alive at any time; while the worker of a
\* stopped run is still draining or cleaning up, a click on Start starts
\* nothing.
C32_OneWorkerAlive ==
    /\ Cardinality(Alive) <= 1
    /\ Alive # {} => hist.start_btn = "disabled"

\* A second run is under way after the first one was stopped, drained,
\* cleaned up and reported finished
C32_Witness ==
    /\ Len(hist.threads) >= 2
    /\ hist.threads[1] = "ended"
    /\ hist.threads[2] \in {"staging", "convert"}
    /\ hist.stopped

(* The settings read while a run is under way *)

\* The two scales of the settings frame and the transcoder commands built
\* so far, each with the parameters it was given
SettingHist ==
    NoHist @@
    [compression_level |-> 12,                     \* line 91
     confirmed |-> [threads |-> 1, level |-> 12],  \* shown at lines 926-927
     cmds |-> <<>>]                                \* ffmpeg_cmd, lines 649-659

\* A run that has just been confirmed: the worker is about to dispatch the
\* files found, and the summary the user accepted showed the values the two
\* scales had at that moment
SettingInit ==
    /\ entry = "gui"
    /\ use_cache = FALSE
    /\ cache_dir = <<>>
    /\ thread_count \in 1..MaxWorkers
    /\ fs = SourceTree(MaxFiles)
    /\ dirs = {ParentDir, OriginalInputDir}
    /\ pc = "convert"
    /\ exc = "none"
    /\ is_converting = TRUE
    /\ wav_files = find_wav_files(OriginalInputDir)
    /\ input_dir = OriginalInputDir
    /\ copy = <<>>
    /\ cached_files = <<>>
    /\ failed_copies = <<>>
    /\ job = <<>>
    /\ summary = NoSummary
    /\ \E l \in {0, 12} :
         hist = [SettingHist EXCEPT
                   !.compression_level = l,
                   !.confirmed = [threads |-> thread_count, level |-> l]]

\* The user drags one of the two scales (lines 253 and 262); neither is
\* disabled while a run is under way
MoveScale ==
    /\ \/ /\ thread_count' \in (1..MaxWorkers) \ {thread_count}
          /\ UNCHANGED hist
       \/ /\ \E l \in {0, 12} \ {hist.compression_level} :
               hist' = [hist EXCEPT !.compression_level = l]
          /\ UNCHANGED thread_count
    /\ UNCHANGED <<entry, use_cache, cache_dir, fs, dirs, pc, exc,
                   is_converting, wav_files, input_dir, copy, cached_files,
                   failed_copies, job, summary>>

\* A job of the pool builds its transcoder command: convert_single_file
\* reads self.thread_count.get() and self.compression_level.get() when it
\* runs (lines 652 and 654)
BuildCommand(p) ==
    /\ p \in Range(wav_files)
    /\ \A i \in 1..Len(hist.cmds) : hist.cmds[i].path # p
    /\ hist' = [hist EXCEPT !.cmds = Append(@, [path |-> p,
                                                threads |-> thread_count,
                                                level |-> hist.compression_level])]
    /\ UNCHANGED <<entry, use_cache, cache_dir, thread_count, fs, dirs, pc, exc,
                   is_converting, wav_files, input_dir, copy, cached_files,
                   failed_copies, job, summary>>

SettingSpec ==
    SettingInit /\ [][MoveScale \/ \E p \in AllPaths : BuildCommand(p)]_vars

\* C33: every transcoder command of one run carries the thread hint and the
\* compression level that were in force when the run was confirmed, also
\* when a setting is changed in the GUI while the run is under way.
C33_SameParameters ==
    \A i \in 1..Len(hist.cmds) :
        /\ hist.cmds[i].threads = hist.confirmed.threads
        /\ hist.cmds[i].level = hist.confirmed.level

\* C34: staging cleanup removes only what the run staged: every file that is
\* on disk when the finally clause begins and that is not one of the run's
\* staged copies (a file that was in the staging directory before the run,
\* a converted output, a source) is still on disk when the clause has ended.
C34_CleanupRemovesOnlyStaged ==
    [][(pc = "finally" /\ pc' # "finally") =>
          \A q \in DOMAIN fs :
              q \notin Range(cached_files) => q \in DOMAIN fs']_vars

----------------------------------------------------------------------------
(* A destination file left over from an earlier run *)

\* The state in which main submits the jobs of a second run over the same
\* tree: the destination of the first file is on disk already, with the size
\* the earlier run gave it
StaleInit ==
    /\ entry = "cli"
    /\ use_cache = FALSE
    /\ cache_dir = <<>>
    /\ thread_count \in 1..MaxWorkers
    /\ fs = Put(TreeOf(PoolFiles(thread_count + 1)),
                OutputFilePath(SourcePath(1), OriginalInputDir, OutputDir), 2)
    /\ dirs = {ParentDir, OriginalInputDir, OutputDir}
    /\ pc = "submit"
    /\ exc = "none"
    /\ is_converting = FALSE
    /\ wav_files = find_wav_files(OriginalInputDir)
    /\ input_dir = OriginalInputDir
    /\ copy = <<>>
    /\ cached_files = <<>>
    /\ failed_copies = <<>>
    /\ job = <<>>
    /\ summary = NoSummary
    /\ hist = [NoHist EXCEPT !.discovered = find_wav_files(OriginalInputDir),
                             !.scanned = TRUE]

StaleSpec == StaleInit /\ [][PoolNext]_vars

\* C35: a job is reported successful only if its destination was written by
\* this job's transcoder invocation; a destination left over from an earlier
\* run does not make a job successful whose transcoder exited with code 0
\* without writing.
C35_SuccessOnlyIfWritten ==
    \A p \in DOMAIN job :
        (job[p].st = "finished" /\ job[p].res.success) => job[p].oc.wrote

----------------------------------------------------------------------------
(* A GUI run that is stopped *)

\* C36: a GUI run stopped during conversion is never reported as completed:
\* once the stop flag has flipped, the progress event with current = total
\* and 'Conversion completed!' is published only if the result of every
\* dispatched file was recorded.
C36_StoppedNotCompleted ==
    (entry = "gui" /\ hist.stopped /\ hist.completed_msg) =>
        \A p \in DOMAIN job : job[p].rec = 1

----------------------------------------------------------------------------
(* Cleanup and the conversion pool *)

\* C38: the staging directory is never removed while a conversion job that
\* reads from it is still running or queued: when the cleanup of the finally
\* clause runs in a staged run, every job of the conversion pool has
\* finished, also when the run was stopped or interrupted during the
\* conversion.
C38_CleanupAfterDrain ==
    [][(pc = "finally" /\ pc' # "finally" /\ use_cache) =>
          \A p \in DOMAIN job : job[p].st = "finished"]_vars

====
